---- MODULE Spec2Model ----
(***************************************************************************)
(* A model of the transport reliability layer of sudp:                     *)
(*   - PacketBuffer / ReliableChannel   (src/sudp/common/recovery.py)      *)
(*   - ConnectionManager                (src/sudp/common/recovery.py)      *)
(*   - TCPClient                        (src/sudp/client/tcp_client.py)    *)
(*   - TCPServer                        (src/sudp/server/tcp_server.py)    *)
(* Time is a discrete clock `now`; asyncio tasks are modelled as explicit  *)
(* program counters, and a step runs from one await to the next.           *)
(***************************************************************************)
EXTENDS Integers, Sequences, FiniteSets, TLC

\* ------------------------------------------------------------------ bounds
MaxTime == 4
MaxSends == 3
MaxLiveSends == 2
max_size == 2
timeout_seconds == 1
max_retries == 1
MaxConns == 2
MaxLines == 2
MaxTimeouts == 1
MaxIdle == 2
max_clients == 1
MaxPackets == 2
MaxCalls == 2
MaxLoops == 2
MaxPayload == 2
MaxStarts == 3
MaxStops == 2
MaxBuffered == 2
MaxBadLines == 4
MaxWires == 2
MaxWatched == 3
MaxFrames == 3
MaxLinks == 2
MaxReplies == 2

\* The 32-bit sequence counter is held as <<high, low>> 16-bit halves, so
\* that (n + 1) % (2**32) is computed exactly: 2**32 = Half * Half
Half == 65536

SeqZero == <<0, 0>>

\* mutant: the counter is not reduced modulo 2**32
SeqNext_NoWrap(s) ==
    IF s[2] + 1 < Half THEN <<s[1], s[2] + 1>> ELSE <<s[1] + 1, 0>>

\* (seq + 1) % (2**32)
SeqNext(s) ==
    IF s[2] + 1 < Half THEN <<s[1], s[2] + 1>> ELSE <<(s[1] + 1) % Half, 0>>

Payloads == {"48656c6c6f"}

NoId == <<-1, SeqZero>>

VARIABLES
    now,            \* time.time(), in whole seconds
    buffer,         \* ReliableChannel.buffer: [packets, packet_ids]
    next_seq_num,   \* ReliableChannel._next_seq_num
    retransmit,     \* ReliableChannel._retransmit_task: [pc, batch]
    ch_shutdown,    \* ReliableChannel._shutdown_event
    pending_sends,  \* ids of send() calls suspended inside send_func (see Send)
    n_sends,        \* history: number of send() calls made
    quiet,          \* history: TRUE until the first acknowledge() or stop()
    evict_fifo,     \* history: TRUE while every eviction took the earliest-inserted entry
    watched,        \* history: the id of one arbitrarily chosen send() call
    tx,             \* history: send_func invocations for the watched id, [n, buffered]
    ack_at,         \* history: when the watched id was first acknowledged, or -1
    send_result,    \* history: what send() gave its caller for the watched id
    server,         \* TCPServer: [running, shutdown] (_running, _shutdown_event)
    clients,        \* TCPServer._clients: the connections that have a session
    conn,           \* the TCP connections made to the server, see FreeConn
    n_lines,        \* history: number of lines the clients have written
    echo_exact,     \* history: every plain object frame read so far was echoed
    isolated,       \* history: every frame written stems from its own session
    error_replied,  \* history: every line read that was not JSON got an error frame
    stops,          \* history: the stop() calls on a server not running, [calls, idle]
    cli,            \* TCPClient: [made, reliable, sends, delivered]
    cm,             \* TCPClient.connection_manager: [connected, retry_count, task]
    link,           \* the TCP connection the TCPClient holds, see NoLink
    reply,          \* history: what the server replied to the last packet frame
    mgr,            \* ConnectionManager: [connected, connecting, retry_count, last_error, task]
    loops,          \* the _reconnect_loop tasks created so far: [pc, attempts, by]
    calls,          \* connect() calls: [made, attempt, wait], the last two in progress
    since_reset,    \* history: reset() was the last call made on the manager
    pkt,            \* a UDPPacket through construction, encoding and decoding, see PktInit
    bo,             \* a ConnectionManager and the backoff delays of its task, see NoManager
    fault,          \* the connections to the server that have been reset
    wire,           \* the stream of the TCPClient under the channel: [up, conns, seen]
    pb,             \* a PacketBuffer and the last call made on it, see NoCall
    sq,             \* the sequence counter of a ReliableChannel and its last send(), see FreshCounter
    sess,           \* one run of _client_loop, statement by statement, see NewSession
    rl,             \* a TCPClient and its _handle_responses loop, statement by statement, see NoClient
    chan            \* ReliableChannel through start() and stop(): [tasks, task, shutdown, awaiting, packets, returned]

chVars == <<buffer, next_seq_num, retransmit, ch_shutdown, pending_sends,
            n_sends, quiet, evict_fifo, watched, tx, ack_at, send_result>>

srvVars == <<server, clients, conn, n_lines, echo_exact, isolated, error_replied,
             stops>>

cliVars == <<cli, cm, link, reply>>
mgrVars == <<mgr, loops, calls, since_reset>>
pktVars == <<pkt>>
lifeVars == <<chan>>
boVars == <<bo>>
faultVars == <<fault>>
wireVars == <<wire>>
pbVars == <<pb>>
sqVars == <<sq>>
sessVars == <<sess>>
rlVars == <<rl>>

\* the history variables of the channel
chHist == <<pending_sends, n_sends, evict_fifo, watched, tx, ack_at, send_result>>

vars == <<now, chVars, srvVars, cliVars, mgrVars, pktVars, lifeVars, boVars, faultVars, wireVars,
          pbVars, sqVars, sessVars, rlVars>>

\* ------------------------------------------------------------- dict helpers
\* dict.pop(key, None) on an insertion-ordered dict held as a sequence
DictPop(pk, id) == SelectSeq(pk, LAMBDA e : e.id # id)

\* dict[key] = value: an existing key keeps its position, a new one is appended
DictSet(pk, entry) ==
    IF \E i \in 1..Len(pk) : pk[i].id = entry.id
    THEN [i \in 1..Len(pk) |-> IF pk[i].id = entry.id THEN entry ELSE pk[i]]
    ELSE Append(pk, entry)

DictKeys(pk) == {pk[i].id : i \in 1..Len(pk)}

DictGet(pk, id) == pk[CHOOSE i \in 1..Len(pk) : pk[i].id = id]

\* next(iter(a_set)): a set of strings iterates in hash order, which is
\* randomised per process, so any element may come first
IterFirst(S) == S

\* ------------------------------------------------------------- PacketBuffer
EmptyBuffer == [packets |-> <<>>, packet_ids |-> {}]

IsFull(buf) == Len(buf.packets) >= max_size

\* mutant: add() without the eviction of a full buffer
PacketBuffer_add_NoEvict(buf, packet_id, packet_data, t, oldest_id) ==
    [packets |-> DictSet(buf.packets,
                         [id |-> packet_id, data |-> packet_data,
                          timestamp |-> t, retries |-> 0]),
     packet_ids |-> buf.packet_ids \cup {packet_id}]

PacketBuffer_add(buf, packet_id, packet_data, t, oldest_id) ==
    LET b1 == IF IsFull(buf)
              THEN [packets |-> DictPop(buf.packets, oldest_id),
                    packet_ids |-> buf.packet_ids \ {oldest_id}]
              ELSE buf
    IN [packets |-> DictSet(b1.packets,
                            [id |-> packet_id, data |-> packet_data,
                             timestamp |-> t, retries |-> 0]),
        packet_ids |-> b1.packet_ids \cup {packet_id}]

\* mutant: acknowledge() forgets the id but leaves the entry in the dict
PacketBuffer_acknowledge_KeepsEntry(buf, packet_id) ==
    [buf EXCEPT !.packet_ids = @ \ {packet_id}]

\* mutant: acknowledge() pops the oldest entry whatever the id
PacketBuffer_acknowledge_Oldest(buf, packet_id) ==
    IF buf.packets # <<>>
    THEN [packets |-> Tail(buf.packets),
          packet_ids |-> buf.packet_ids \ {buf.packets[1].id}]
    ELSE buf

PacketBuffer_acknowledge(buf, packet_id) ==
    IF packet_id \in DictKeys(buf.packets)
    THEN [packets |-> DictPop(buf.packets, packet_id),
          packet_ids |-> buf.packet_ids \ {packet_id}]
    ELSE buf

IsDue(entry, t) == t - entry.timestamp > timeout_seconds

\* mutant: get_unacknowledged() counts the retry but keeps the old timestamp
PacketBuffer_get_unacknowledged_NoStamp(buf, t) ==
    LET pk == buf.packets
        due == SelectSeq(pk, LAMBDA e : IsDue(e, t))
    IN [buf |-> [buf EXCEPT !.packets =
                    [i \in 1..Len(pk) |->
                        IF IsDue(pk[i], t)
                        THEN [pk[i] EXCEPT !.retries = @ + 1]
                        ELSE pk[i]]],
        result |-> [i \in 1..Len(due) |-> [id |-> due[i].id, data |-> due[i].data]]]

\* get_unacknowledged: [buf |-> the buffer afterwards, result |-> the list returned]
PacketBuffer_get_unacknowledged(buf, t) ==
    LET pk == buf.packets
        due == SelectSeq(pk, LAMBDA e : IsDue(e, t))
    IN [buf |-> [buf EXCEPT !.packets =
                    [i \in 1..Len(pk) |->
                        IF IsDue(pk[i], t)
                        THEN [pk[i] EXCEPT !.timestamp = t, !.retries = @ + 1]
                        ELSE pk[i]]],
        result |-> [i \in 1..Len(due) |-> [id |-> due[i].id, data |-> due[i].data]]]

PacketBuffer_clear(buf) == EmptyBuffer

\* ---------------------------------------------------------- ReliableChannel
SendOutcomes == {"ok", "raise", "suspend"}

NoResult == [returned |-> FALSE, value |-> NoId, func_raised |-> FALSE]

\* send(): the metadata attached to the caller's data
ReliableChannel_packet_data(data, packet_id, seq_num, t) ==
    ("_meta" :> [id |-> packet_id, seq |-> seq_num, timestamp |-> t,
                 requires_ack |-> TRUE]) @@ data

\* mutant: send_func is invoked before the entry is buffered
ReliableChannel_send_SendFirst(buf, packet_id, packet_data, t, oldest_id) ==
    [at_call |-> buf,
     after |-> PacketBuffer_add(buf, packet_id, packet_data, t, oldest_id)]

\* send(): the buffer as send_func sees it when invoked, and afterwards
ReliableChannel_send(buf, packet_id, packet_data, t, oldest_id) ==
    LET added == PacketBuffer_add(buf, packet_id, packet_data, t, oldest_id)
    IN [at_call |-> added, after |-> added]

\* send(): what the caller gets once send_func has returned or raised
ReliableChannel_send_return(packet_id, raised) ==
    [returned |-> TRUE, value |-> packet_id, func_raised |-> raised]

\* _retransmit_loop: packet_data.get("_meta", {}).get("retries", 0)
MetaRetries(packet_data) ==
    IF "_meta" \in DOMAIN packet_data
    THEN IF "retries" \in DOMAIN packet_data["_meta"]
         THEN packet_data["_meta"].retries
         ELSE 0
    ELSE 0

\* mutant: an exception of send_func escapes and ends the loop
Retransmit_after_send_Dies(rest, raised) ==
    IF raised THEN "done" ELSE IF rest = <<>> THEN "sleep" ELSE "batch"

\* _retransmit_loop: where the loop goes after a send_func call has ended
Retransmit_after_send(rest, raised) ==
    IF rest = <<>> THEN "sleep" ELSE "batch"

\* a task is running between two awaits: no other task is scheduled meanwhile
Running == retransmit.pc = "batch"

\* start() has been called and stop() has not been called since
Started == retransmit.pc # "none" /\ ~ch_shutdown

\* the keys inserted into the dict before id and still in it
Older(pk, id) ==
    LET k == CHOOSE i \in 1..Len(pk) : pk[i].id = id
    IN {pk[j].id : j \in 1..(k - 1)}

\* What is left of send() after send_func changes nothing but the value handed
\* to the caller, so only the watched call is followed through its suspension
\* in send_func; the other calls are taken to their end at once.
Send(data, oldest_id, outcome, watch) ==
    LET seq_num == next_seq_num
        packet_id == <<now, seq_num>>
        packet_data == ReliableChannel_packet_data(data, packet_id, seq_num, now)
        r == ReliableChannel_send(buffer, packet_id, packet_data, now, oldest_id)
    IN /\ ~Running
       /\ n_sends < MaxSends
       /\ outcome = "suspend" => watch
       /\ watch => watched = NoId
       /\ n_sends' = n_sends + 1
       /\ next_seq_num' = SeqNext(next_seq_num)
       /\ buffer' = r.after
       /\ pending_sends' = IF outcome = "suspend"
                           THEN pending_sends \cup {packet_id}
                           ELSE pending_sends
       /\ evict_fifo' = IF IsFull(buffer)
                        THEN evict_fifo /\ Older(buffer.packets, oldest_id) = {}
                        ELSE evict_fifo
       /\ IF watch
          THEN /\ watched' = packet_id
               /\ tx' = [n |-> 1, buffered |-> packet_id \in r.at_call.packet_ids]
               /\ send_result' = IF outcome = "suspend" THEN NoResult
                                 ELSE ReliableChannel_send_return(packet_id, outcome = "raise")
          ELSE UNCHANGED <<watched, tx, send_result>>
       /\ UNCHANGED <<now, retransmit, ch_shutdown, quiet, ack_at, srvVars, cliVars, mgrVars, pktVars, lifeVars, boVars, faultVars, wireVars, pbVars, sqVars, sessVars, rlVars>>

SendAny ==
    \E data \in [{"payload"} -> Payloads], outcome \in SendOutcomes, watch \in BOOLEAN :
        \E oldest_id \in (IF IsFull(buffer) THEN IterFirst(buffer.packet_ids) ELSE {NoId}) :
            Send(data, oldest_id, outcome, watch)

\* send_func returns or raises inside a suspended send()
SendReturn(packet_id, raised) ==
    /\ ~Running
    /\ packet_id \in pending_sends
    /\ pending_sends' = pending_sends \ {packet_id}
    /\ send_result' = IF packet_id = watched
                      THEN ReliableChannel_send_return(packet_id, raised)
                      ELSE send_result
    /\ UNCHANGED <<now, buffer, next_seq_num, retransmit, ch_shutdown, n_sends,
                   quiet, evict_fifo, watched, tx, ack_at, srvVars, cliVars, mgrVars, pktVars, lifeVars, boVars, faultVars, wireVars, pbVars, sqVars, sessVars, rlVars>>

SendReturnAny == \E packet_id \in pending_sends, raised \in BOOLEAN :
                    SendReturn(packet_id, raised)

Acknowledge(packet_id) ==
    /\ ~Running
    /\ buffer' = PacketBuffer_acknowledge(buffer, packet_id)
    /\ ack_at' = IF packet_id = watched /\ ack_at = -1 THEN now ELSE ack_at
    /\ quiet' = FALSE
    /\ UNCHANGED <<now, next_seq_num, retransmit, ch_shutdown, pending_sends,
                   n_sends, evict_fifo, watched, tx, send_result, srvVars, cliVars, mgrVars, pktVars, lifeVars, boVars, faultVars, wireVars, pbVars, sqVars, sessVars, rlVars>>

\* an acknowledgment names a packet still buffered or the watched packet
AcknowledgeAny ==
    \E packet_id \in buffer.packet_ids \cup ({watched} \ {NoId}) :
        Acknowledge(packet_id)

\* the loop wakes from asyncio.sleep(1.0) and calls get_unacknowledged()
RetransmitWake ==
    /\ retransmit.pc = "sleep"
    /\ IF ch_shutdown
       THEN /\ retransmit' = [pc |-> "done", batch |-> <<>>]
            /\ UNCHANGED buffer
       ELSE LET r == PacketBuffer_get_unacknowledged(buffer, now)
            IN /\ buffer' = r.buf
               /\ retransmit' = [pc |-> IF r.result = <<>> THEN "sleep" ELSE "batch",
                                 batch |-> r.result]
    /\ UNCHANGED <<now, next_seq_num, ch_shutdown, pending_sends, n_sends, quiet,
                   evict_fifo, watched, tx, ack_at, send_result, srvVars, cliVars, mgrVars, pktVars, lifeVars, boVars, faultVars, wireVars, pbVars, sqVars, sessVars, rlVars>>

\* one iteration of the for loop over the entries get_unacknowledged returned
RetransmitStep(outcome) ==
    /\ retransmit.pc = "batch"
    /\ LET head == Head(retransmit.batch)
           rest == Tail(retransmit.batch)
       IN IF MetaRetries(head.data) >= max_retries
          THEN /\ buffer' = PacketBuffer_acknowledge(buffer, head.id)
               /\ retransmit' = [pc |-> IF rest = <<>> THEN "sleep" ELSE "batch",
                                 batch |-> rest]
               /\ UNCHANGED tx
          ELSE /\ tx' = IF head.id = watched THEN [tx EXCEPT !.n = @ + 1] ELSE tx
               /\ retransmit' =
                     [pc |-> IF outcome = "suspend" THEN "send"
                             ELSE Retransmit_after_send(rest, outcome = "raise"),
                      batch |-> rest]
               /\ UNCHANGED buffer
    /\ UNCHANGED <<now, next_seq_num, ch_shutdown, pending_sends, n_sends, quiet,
                   evict_fifo, watched, ack_at, send_result, srvVars, cliVars, mgrVars, pktVars, lifeVars, boVars, faultVars, wireVars, pbVars, sqVars, sessVars, rlVars>>

RetransmitStepAny == \E outcome \in SendOutcomes : RetransmitStep(outcome)

\* send_func returns or raises inside the suspended loop
RetransmitResume(raised) ==
    /\ retransmit.pc = "send"
    /\ retransmit' = [retransmit EXCEPT
                         !.pc = Retransmit_after_send(retransmit.batch, raised)]
    /\ UNCHANGED <<now, buffer, next_seq_num, ch_shutdown, pending_sends, n_sends,
                   quiet, evict_fifo, watched, tx, ack_at, send_result, srvVars, cliVars, mgrVars, pktVars, lifeVars, boVars, faultVars, wireVars, pbVars, sqVars, sessVars, rlVars>>

RetransmitResumeAny == \E raised \in BOOLEAN : RetransmitResume(raised)

Start ==
    /\ ~Running
    /\ ch_shutdown \/ retransmit.pc \in {"none", "done"}
    /\ ch_shutdown' = FALSE
    /\ retransmit' = IF retransmit.pc \in {"none", "done"}
                     THEN [pc |-> "sleep", batch |-> <<>>]
                     ELSE retransmit
    /\ UNCHANGED <<now, buffer, next_seq_num, pending_sends, n_sends, quiet,
                   evict_fifo, watched, tx, ack_at, send_result, srvVars, cliVars, mgrVars, pktVars, lifeVars, boVars, faultVars, wireVars, pbVars, sqVars, sessVars, rlVars>>

\* stop(): the task is cancelled at the await it is suspended in, then the
\* buffer is cleared
Stop ==
    /\ ~Running
    /\ ch_shutdown' = TRUE
    /\ retransmit' = IF retransmit.pc \in {"sleep", "send"}
                     THEN [pc |-> "done", batch |-> <<>>]
                     ELSE retransmit
    /\ buffer' = PacketBuffer_clear(buffer)
    /\ quiet' = FALSE
    /\ UNCHANGED <<now, next_seq_num, pending_sends, n_sends, evict_fifo, watched,
                   tx, ack_at, send_result, srvVars, cliVars, mgrVars, pktVars, lifeVars, boVars, faultVars, wireVars, pbVars, sqVars, sessVars, rlVars>>

Tick ==
    /\ ~Running
    /\ now < MaxTime
    /\ now' = now + 1
    /\ UNCHANGED <<buffer, next_seq_num, retransmit, ch_shutdown, pending_sends,
                   n_sends, quiet, evict_fifo, watched, tx, ack_at, send_result, srvVars, cliVars, mgrVars, pktVars, lifeVars, boVars, faultVars, wireVars, pbVars, sqVars, sessVars, rlVars>>

\* ---------------------------------------------------------------- TCPServer
\* A line on the wire is [text, obj, long]: text is "json" for a line that
\* json.loads accepts (obj is then the value it yields), "garbage" for text
\* it rejects and "binary" for bytes that are not UTF-8; long says that the line is longer than the limit of the
\* server's StreamReader (asyncio's default, as start_server is given none).  The objects carry
\* strings, integers, booleans and ids, which json.dumps and json.loads take
\* to the wire and back unchanged.
Conns == 1..MaxConns

\* wait_for(client.reader.readline(), timeout=30.0)
ReadTimeout == 30

max_consecutive_errors == 5

None == [text |-> "none", obj |-> <<>>, long |-> FALSE]

Garbage == [text |-> "garbage", obj |-> <<>>, long |-> FALSE]

Binary == [text |-> "binary", obj |-> <<>>, long |-> FALSE]

JsonDumps(obj) == [text |-> "json", obj |-> obj, long |-> FALSE]

JsonLoads(line) == [ok |-> line.text = "json", value |-> line.obj]

\* the frame of the integration tests: {"message": ..., "client_id": ...}
PlainFrame(c) == [message |-> "Hello", client_id |-> c]

\* a payload frame as ReliableChannel.send puts it on the wire
MetaFrame(c) ==
    ReliableChannel_packet_data([payload |-> "48656c6c6f", source_port |-> c],
                                <<0, SeqZero>>, SeqZero, 0)

WithAck(frame, requires_ack) ==
    [frame EXCEPT !["_meta"] = [@ EXCEPT !.requires_ack = requires_ack]]

AckFrame(id) == [k \in {"_ack"} |-> id]

\* the lines a client may write on connection c
LinesOf(c) ==
    {JsonDumps(PlainFrame(c)),
     [JsonDumps(PlainFrame(c)) EXCEPT !.long = TRUE],
     JsonDumps(WithAck(MetaFrame(c), TRUE)),
     JsonDumps(WithAck(MetaFrame(c), FALSE)),
     JsonDumps(AckFrame(<<0, SeqZero>>)),
     Garbage,
     Binary}

\* dict.pop(key, None) / dict without a key
Without(obj, key) == [k \in (DOMAIN obj) \ {key} |-> obj[k]]

ErrorFrame(message, t) ==
    [error |-> message] @@
    ("_meta" :> [id |-> <<"error", t>>, timestamp |-> t, requires_ack |-> FALSE])

\* meta.get("id") is there and is not empty
HasId(meta) == "id" \in DOMAIN meta /\ meta.id # <<>>

\* _process_packet: the response line, or None
TCPServer_process_packet(data, t) ==
    LET parsed == JsonLoads(data)
        packet == parsed.value
        has_meta == "_meta" \in DOMAIN packet
        meta == packet["_meta"]
        response == Without(packet, "_meta")
    IN IF ~parsed.ok THEN JsonDumps(ErrorFrame("Invalid JSON", t))
       ELSE IF "_ack" \in DOMAIN packet THEN None
       ELSE IF has_meta /\ meta.requires_ack /\ HasId(meta)
            THEN JsonDumps(AckFrame(meta.id))
       ELSE IF has_meta
            THEN JsonDumps(response @@
                    ("_meta" :> [id |-> <<"resp", meta.id>>, timestamp |-> t,
                                 requires_ack |-> FALSE]))
       ELSE JsonDumps(response)

\* mutant: a heartbeat whose id does not follow the clock
Heartbeat_FixedId(t) ==
    JsonDumps([heartbeat |-> t] @@
              ("_meta" :> [id |-> <<"heartbeat", 0>>, timestamp |-> t,
                           requires_ack |-> TRUE]))

\* _client_loop, the TimeoutError branch: the heartbeat frame
Heartbeat(t) ==
    JsonDumps([heartbeat |-> t] @@
              ("_meta" :> [id |-> <<"heartbeat", t>>, timestamp |-> t,
                           requires_ack |-> TRUE]))

\* mutant: admission that lets one connection too many in
TCPServer_admits_OffByOne(n_clients) == ~(n_clients > max_clients)

\* _handle_client: a session is created unless len(self._clients) >= max_clients
TCPServer_admits(n_clients) == ~(n_clients >= max_clients)

\* A connection: st is "free" (not made), "pending" (established, _handle_client
\* not yet run), "session" (in _clients, _client_loop running or ended),
\* "rejected" or "closed"; unread counts the lines written by the client and
\* not yet read by the server (what a line holds is drawn when it is read),
\* frag says that the tail of an over-long line is the next thing to be read,
\* eof that the client has closed the stream; pc is the position of
\* _client_loop, errs its consecutive_errors; io tells whether the server has
\* read from or written to the stream; timeouts counts the read timeouts that
\* have elapsed on the session and hbs holds the heartbeats written on it.
FreeConn ==
    [st |-> "free", unread |-> 0, frag |-> FALSE, eof |-> FALSE, pc |-> "-",
     errs |-> 0, io |-> FALSE, timeouts |-> 0, hbs |-> <<>>]

\* the while condition, evaluated when an iteration has ended
LoopTop == IF server.shutdown THEN "done" ELSE "read"

ServerStart ==
    /\ ~server.running
    /\ server' = [running |-> TRUE, shutdown |-> FALSE]
    /\ UNCHANGED <<now, clients, conn, n_lines, echo_exact, isolated, error_replied, stops, chVars, cliVars, mgrVars, pktVars, lifeVars, boVars, faultVars, wireVars, pbVars, sqVars, sessVars, rlVars>>

\* a client opens a TCP connection (connections are numbered as they are made)
Connect(c) ==
    /\ server.running
    /\ conn[c].st = "free"
    /\ c > 1 => conn[c - 1].st # "free"
    /\ conn' = [conn EXCEPT ![c].st = "pending"]
    /\ UNCHANGED <<now, server, clients, n_lines, echo_exact, isolated, error_replied, stops, chVars, cliVars, mgrVars, pktVars, lifeVars, boVars, faultVars, wireVars, pbVars, sqVars, sessVars, rlVars>>

ConnectAny == \E c \in Conns : Connect(c)

\* the end of a session: the writer is closed, so what the connection still
\* buffered is dropped with it; what the session did stays on record
Released(k) ==
    [k EXCEPT !.st = "closed", !.pc = "done", !.unread = 0, !.frag = FALSE,
              !.eof = TRUE, !.errs = 0]

\* _handle_client up to the await of the session task
HandleClient(c) ==
    /\ conn[c].st = "pending"
    /\ IF TCPServer_admits(Cardinality(clients))
       THEN /\ clients' = clients \cup {c}
            /\ conn' = [conn EXCEPT ![c].st = "session", ![c].pc = LoopTop]
       ELSE /\ conn' = [conn EXCEPT ![c].st = "rejected"]
            /\ UNCHANGED clients
    /\ UNCHANGED <<now, server, n_lines, echo_exact, isolated, error_replied, stops, chVars, cliVars, mgrVars, pktVars, lifeVars, boVars, faultVars, wireVars, pbVars, sqVars, sessVars, rlVars>>

HandleClientAny == \E c \in Conns : HandleClient(c)

\* the client writes a line
ClientSend(c) ==
    /\ conn[c].st \in {"pending", "session"}
    /\ ~conn[c].eof
    /\ n_lines < MaxLines
    /\ n_lines' = n_lines + 1
    /\ conn' = [conn EXCEPT ![c].unread = @ + 1]
    /\ UNCHANGED <<now, server, clients, echo_exact, isolated, error_replied, stops, chVars, cliVars, mgrVars, pktVars, lifeVars, boVars, faultVars, wireVars, pbVars, sqVars, sessVars, rlVars>>

ClientSendAny == \E c \in Conns : ClientSend(c)

\* the client closes the connection
ClientClose(c) ==
    /\ conn[c].st \in {"pending", "session"}
    /\ ~conn[c].eof
    /\ conn' = [conn EXCEPT ![c].eof = TRUE]
    /\ UNCHANGED <<now, server, clients, n_lines, echo_exact, isolated, error_replied, stops, chVars, cliVars, mgrVars, pktVars, lifeVars, boVars, faultVars, wireVars, pbVars, sqVars, sessVars, rlVars>>

ClientCloseAny == \E c \in Conns : ClientClose(c)

\* a JSON object with neither an _ack key nor _meta, of any length
IsPlainFrame(line) ==
    /\ line.text = "json"
    /\ "_ack" \notin DOMAIN line.obj
    /\ "_meta" \notin DOMAIN line.obj

\* the session a frame written by the server stems from, where the frame tells
CausedBy(frame, c) ==
    IF frame.text = "json" /\ "client_id" \in DOMAIN frame.obj
    THEN frame.obj.client_id
    ELSE c

\* StreamReader.readline on a line longer than the limit raises ValueError;
\* what it leaves to be read depends on how much of the stream had arrived:
\* the rest ("line": nothing of this line), the tail of the line ("fragment"),
\* or nothing of what the client has written so far ("buffer")
Overruns == {"line", "fragment", "buffer"}

AfterOverrun(k, overrun) ==
    CASE overrun = "line" -> [k EXCEPT !.unread = @ - 1]
      [] overrun = "fragment" -> [k EXCEPT !.frag = TRUE]
      [] overrun = "buffer" -> [k EXCEPT !.unread = 0]

\* readline returns a line: the try block to its end
AfterLine(k) ==
    [k EXCEPT !.unread = @ - 1, !.frag = FALSE, !.errs = 0, !.pc = LoopTop,
              !.io = TRUE]

\* readline raises: the except Exception block
AfterError(k) ==
    [k EXCEPT !.errs = @ + 1,
              !.pc = IF k.errs + 1 >= max_consecutive_errors THEN "done"
                     ELSE LoopTop,
              !.io = TRUE]

\* data.decode() raises: the line is read, consecutive_errors is reset, and the
\* except Exception block follows
AfterDecodeError(k) ==
    AfterError([k EXCEPT !.unread = @ - 1, !.frag = FALSE, !.errs = 0])

\* the error frame that answers a line that is not JSON
IsErrorFrame(line) ==
    /\ line.text = "json"
    /\ "error" \in DOMAIN line.obj
    /\ "_meta" \in DOMAIN line.obj
    /\ line.obj["_meta"].requires_ack = FALSE

\* one iteration of _client_loop in which readline returns or raises
LoopRead(c, line, overrun) ==
    LET k == conn[c]
        raises == line.long \/ line.text = "binary"
        response == IF raises THEN None ELSE TCPServer_process_packet(line, now)
    IN /\ k.st = "session"
       /\ k.pc = "read"
       /\ k.unread > 0
       /\ k.frag => line = Garbage
       /\ ~line.long => overrun = "line"
       /\ conn' = [conn EXCEPT ![c] =
             IF line.long THEN AfterError(AfterOverrun(k, overrun))
             ELSE IF line.text = "binary" THEN AfterDecodeError(k)
             ELSE AfterLine(k)]
       /\ echo_exact' = (echo_exact /\
             (IsPlainFrame(line) => response = JsonDumps(line.obj)))
       /\ isolated' = (isolated /\
             (response # None => CausedBy(response, c) = c))
       /\ error_replied' = (error_replied /\
             (line.text # "json" =>
                 IsErrorFrame(response) /\ conn'[c].pc = "read"))
       /\ UNCHANGED <<now, server, clients, n_lines, stops, chVars, cliVars, mgrVars, pktVars, lifeVars, boVars, faultVars, wireVars, pbVars, sqVars, sessVars, rlVars>>

LoopReadAny ==
    \E c \in Conns : \E line \in LinesOf(c) : \E overrun \in Overruns :
        LoopRead(c, line, overrun)

\* one iteration of _client_loop in which readline returns b"": the break
LoopEof(c) ==
    /\ conn[c].st = "session"
    /\ conn[c].pc = "read"
    /\ conn[c].unread = 0
    /\ conn[c].eof
    /\ conn' = [conn EXCEPT ![c].pc = "done", ![c].io = TRUE]
    /\ UNCHANGED <<now, server, clients, n_lines, echo_exact, isolated, error_replied, stops, chVars, cliVars, mgrVars, pktVars, lifeVars, boVars, faultVars, wireVars, pbVars, sqVars, sessVars, rlVars>>

LoopEofAny == \E c \in Conns : LoopEof(c)

\* one iteration of _client_loop in which wait_for times out: no line has
\* arrived for ReadTimeout seconds, and a heartbeat is written
LoopTimeout(c) ==
    /\ conn[c].st = "session"
    /\ conn[c].pc = "read"
    /\ conn[c].unread = 0
    /\ ~conn[c].eof
    /\ now' = now + ReadTimeout
    /\ conn' = [conn EXCEPT ![c].pc = LoopTop, ![c].io = TRUE,
                            ![c].timeouts = @ + 1,
                            ![c].hbs = Append(@, Heartbeat(now'))]
    /\ isolated' = (isolated /\ CausedBy(Heartbeat(now'), c) = c)
    /\ UNCHANGED <<server, clients, n_lines, echo_exact, error_replied, stops, chVars, cliVars, mgrVars, pktVars, lifeVars, boVars, faultVars, wireVars, pbVars, sqVars, sessVars, rlVars>>

LoopTimeoutAny ==
    /\ now < MaxTimeouts * ReadTimeout
    /\ \E c \in Conns : LoopTimeout(c)

\* _handle_client after the session task has ended: the finally block
SessionEnd(c) ==
    /\ conn[c].st = "session"
    /\ conn[c].pc = "done"
    /\ clients' = clients \ {c}
    /\ conn' = [conn EXCEPT ![c] = Released(@)]
    /\ UNCHANGED <<now, server, n_lines, echo_exact, isolated, error_replied, stops, chVars, cliVars, mgrVars, pktVars, lifeVars, boVars, faultVars, wireVars, pbVars, sqVars, sessVars, rlVars>>

SessionEndAny == \E c \in Conns : SessionEnd(c)

\* ------------------------------------------ sessions on connections that break
\* fault holds the connections that have been reset: on those readline raises
\* the connection's error at every call, and what is written does not arrive.

\* the client writes a line; here it may write as many as MaxBadLines
FaultSend(c) ==
    /\ conn[c].st = "session"
    /\ ~conn[c].eof
    /\ c \notin fault
    /\ n_lines < MaxBadLines
    /\ n_lines' = n_lines + 1
    /\ conn' = [conn EXCEPT ![c].unread = @ + 1]
    /\ UNCHANGED <<now, server, clients, echo_exact, isolated, error_replied, stops, chVars, cliVars, mgrVars, pktVars, lifeVars, boVars, faultVars, wireVars, pbVars, sqVars, sessVars, rlVars>>

FaultSendAny == \E c \in Conns : FaultSend(c)

\* an iteration of _client_loop on a connection that is intact
FaultLoopReadAny ==
    \E c \in Conns \ fault : \E line \in LinesOf(c) : \E overrun \in Overruns :
        LoopRead(c, line, overrun)

FaultLoopTimeoutAny ==
    /\ now < MaxIdle * ReadTimeout
    /\ \E c \in Conns \ fault : LoopTimeout(c)

\* the peer resets the connection
ConnReset(c) ==
    /\ conn[c].st = "session"
    /\ ~conn[c].eof
    /\ c \notin fault
    /\ fault' = fault \cup {c}
    /\ UNCHANGED <<now, srvVars, chVars, cliVars, mgrVars, pktVars, lifeVars, boVars, wireVars, pbVars, sqVars, sessVars, rlVars>>

ConnResetAny == \E c \in Conns : ConnReset(c)

\* one iteration of _client_loop in which readline raises the connection's
\* error: the except Exception block
LoopReadFault(c) ==
    /\ conn[c].st = "session"
    /\ conn[c].pc = "read"
    /\ c \in fault
    /\ conn' = [conn EXCEPT ![c] = AfterError(@)]
    /\ UNCHANGED <<now, server, clients, n_lines, echo_exact, isolated, error_replied, stops, chVars, cliVars, mgrVars, pktVars, lifeVars, boVars, faultVars, wireVars, pbVars, sqVars, sessVars, rlVars>>

LoopReadFaultAny == \E c \in Conns : LoopReadFault(c)

\* the heartbeat could not be sent: the except block inside the handler of
\* TimeoutError
AfterHeartbeatError(k) ==
    [k EXCEPT !.errs = @ + 1, !.pc = LoopTop, !.io = TRUE, !.timeouts = @ + 1]

\* one iteration of _client_loop in which wait_for times out and the
\* connection is reset as the heartbeat is written: drain() raises
LoopTimeoutFault(c) ==
    /\ conn[c].st = "session"
    /\ conn[c].pc = "read"
    /\ conn[c].unread = 0
    /\ ~conn[c].eof
    /\ c \notin fault
    /\ now' = now + ReadTimeout
    /\ conn' = [conn EXCEPT ![c] = AfterHeartbeatError(@)]
    /\ fault' = fault \cup {c}
    /\ UNCHANGED <<server, clients, n_lines, echo_exact, isolated, error_replied, stops, chVars, cliVars, mgrVars, pktVars, lifeVars, boVars, wireVars, pbVars, sqVars, sessVars, rlVars>>

LoopTimeoutFaultAny ==
    /\ now < MaxIdle * ReadTimeout
    /\ \E c \in Conns : LoopTimeoutFault(c)

FaultInit == fault = {}

\* the connection of the TCPClient when the server has closed its end: what
\* the server has written can still be read, what it has not read is dropped
PeerClosed(l) ==
    IF l.st = "open" THEN [l EXCEPT !.st = "half", !.c2s = <<>>] ELSE l

\* mutant: stop() without the test of is_running
TCPServer_stop_Unguarded(srv, cl, cn) ==
    [server |-> [running |-> FALSE, shutdown |-> TRUE],
     clients |-> {},
     conn |-> [c \in Conns |->
                 IF cn[c].st = "session"
                 THEN Released(cn[c])
                 ELSE cn[c]]]

\* stop(): nothing on a server that is not running; else every session's
\* writer is closed and its task cancelled, the tables are cleared and the
\* listener is closed
TCPServer_stop(srv, cl, cn) ==
    IF ~srv.running THEN [server |-> srv, clients |-> cl, conn |-> cn]
    ELSE [server |-> [running |-> FALSE, shutdown |-> TRUE],
          clients |-> {},
          conn |-> [c \in Conns |->
                      IF cn[c].st = "session"
                      THEN Released(cn[c])
                      ELSE cn[c]]]

\* which stop() call this is for a server not running: the one on a server
\* that was stopped before ("second"), or on one never started ("unstarted")
StopKind == IF server.shutdown THEN "second" ELSE "unstarted"

\* a call of stop()
StopCall ==
    LET r == TCPServer_stop(server, clients, conn)
    IN /\ server' = r.server
       /\ clients' = r.clients
       /\ conn' = r.conn
       /\ link' = IF server.running THEN PeerClosed(link) ELSE link
       /\ stops' = IF server.running THEN stops
                   ELSE [calls |-> stops.calls \cup {StopKind},
                         idle |-> stops.idle /\ r.server = server
                                     /\ r.clients = clients /\ r.conn = conn]
       /\ UNCHANGED <<now, n_lines, echo_exact, isolated, error_replied, chVars,
                      cli, cm, reply, mgrVars, pktVars, lifeVars, boVars, faultVars, wireVars, pbVars, sqVars, sessVars, rlVars>>

\* stop() on a running server
ServerStop == server.running /\ StopCall

\* stop() on a server that is not running
ServerStopAgain == ~server.running /\ StopCall

\* ---------------------------------------------------------------- TCPClient
\* bytes are sequences of numbers below 256; a hex string is the sequence of
\* their digit pairs
Hex(bytes) == [i \in 1..Len(bytes) |-> <<bytes[i] \div 16, bytes[i] % 16>>]

FromHex(hex) == [i \in 1..Len(hex) |-> hex[i][1] * 16 + hex[i][2]]

\* the UDPPacket handed to send_packet
Packet ==
    [payload |-> <<72, 101>>, source_addr |-> "127.0.0.1", source_port |-> 5000,
     dest_addr |-> "127.0.0.1", dest_port |-> 11223]

PacketKeys == {"payload", "source_addr", "source_port", "dest_addr", "dest_port"}

\* send_packet: the dict that is serialised
TCPClient_data(packet, t) ==
    [payload |-> Hex(packet.payload), source_addr |-> packet.source_addr,
     source_port |-> packet.source_port, dest_addr |-> packet.dest_addr,
     dest_port |-> packet.dest_port, timestamp |-> t]

\* _handle_responses: the UDPPacket built from a frame
UDPPacket_of(data) ==
    [payload |-> FromHex(data.payload), source_addr |-> data.source_addr,
     source_port |-> data.source_port, dest_addr |-> data.dest_addr,
     dest_port |-> data.dest_port]

\* The connection the client holds: st is "none" (no reader and writer),
\* "open", "half" (the server has closed its end; the client's transport is
\* not closing) or "closed" (the transport has closed after a failed write);
\* c2s and s2c are the lines in flight to and from the server; resp is the
\* position of the _handle_responses task started on this connection, and
\* lost tells whether that task has seen this connection end.
NoLink ==
    [st |-> "none", c2s |-> <<>>, s2c |-> <<>>, resp |-> "none", lost |-> FALSE]

NewLink ==
    [st |-> "open", c2s |-> <<>>, s2c |-> <<>>, resp |-> "run", lost |-> FALSE]

TCPClient_is_connected(l) == l.st \in {"open", "half"}

\* _connect_internal, with the server listening (up) or not
TCPClient_connect_internal(l, up) ==
    IF TCPClient_is_connected(l)
    THEN [link |-> l, raised |-> FALSE, opened |-> FALSE]
    ELSE IF up
    THEN [link |-> NewLink, raised |-> FALSE, opened |-> TRUE]
    ELSE [link |-> l, raised |-> TRUE, opened |-> FALSE]

\* what a write and drain can come to on the connection: on an open one the
\* line is sent; once the server has closed its end the line is lost, and
\* the write either passes unnoticed or resets the connection
WriteOutcomes(l) ==
    CASE l.st = "open" -> {"sent"}
      [] l.st = "half" -> {"lost", "reset"}
      [] OTHER -> {"refused"}

\* _send_raw
TCPClient_send_raw(l, data, outcome) ==
    CASE outcome = "sent" ->
            [link |-> [l EXCEPT !.c2s = Append(@, JsonDumps(data))], raised |-> FALSE]
      [] outcome = "lost" -> [link |-> l, raised |-> FALSE]
      [] outcome = "reset" -> [link |-> [l EXCEPT !.st = "closed"], raised |-> TRUE]
      [] outcome = "refused" -> [link |-> l, raised |-> TRUE]

\* ------------------------------------------------------- ConnectionManager
\* the reconnect task is created unless one is running
Reconnecting(task) == IF task \in {"none", "done"} THEN "head" ELSE task

\* connect(); a call is taken to its end in one step, so _connecting is not
\* seen set by another task
ConnectionManager_connect(c, l, up) ==
    LET r == TCPClient_connect_internal(l, up)
    IN IF c.connected THEN [cm |-> c, link |-> l, opened |-> FALSE]
       ELSE IF ~r.raised
       THEN [cm |-> [c EXCEPT !.connected = TRUE, !.retry_count = 0],
             link |-> r.link, opened |-> r.opened]
       ELSE [cm |-> [c EXCEPT !.connected = FALSE, !.retry_count = 0,
                              !.task = Reconnecting(@)],
             link |-> l, opened |-> FALSE]

ConnectionManager_connection_lost(c) ==
    IF ~c.connected THEN c
    ELSE [c EXCEPT !.connected = FALSE, !.task = Reconnecting(@)]

\* reliable_channel.start(), which _connect_internal calls once it has opened
\* a connection
StartChannel(opened) ==
    IF opened /\ cli.reliable
    THEN /\ ch_shutdown' = FALSE
         /\ retransmit' = IF retransmit.pc \in {"none", "done"}
                          THEN [pc |-> "sleep", batch |-> <<>>]
                          ELSE retransmit
    ELSE UNCHANGED <<ch_shutdown, retransmit>>

\* TCPClient(enable_reliable_delivery=reliable)
CliCreate(reliable) ==
    /\ ~cli.made
    /\ cli' = [cli EXCEPT !.made = TRUE, !.reliable = reliable]
    /\ UNCHANGED <<now, cm, link, reply, srvVars, chVars, mgrVars, pktVars, lifeVars, boVars, faultVars, wireVars, pbVars, sqVars, sessVars, rlVars>>

CliCreateAny == \E reliable \in BOOLEAN : CliCreate(reliable)

\* TCPClient.connect()
CliConnect ==
    LET r == ConnectionManager_connect(cm, link, server.running)
    IN /\ cli.made
       /\ ~cli.closed
       /\ ~cm.connected
       /\ cm' = r.cm
       /\ link' = r.link
       /\ StartChannel(r.opened)
       /\ UNCHANGED <<now, cli, reply, srvVars, buffer, next_seq_num, quiet, chHist, mgrVars, pktVars, lifeVars, boVars, faultVars, wireVars, pbVars, sqVars, sessVars, rlVars>>

\* send_packet(Packet)
CliSendPacket(outcome, oldest_id) ==
    LET r == IF TCPClient_is_connected(link)
             THEN [cm |-> cm, link |-> link, opened |-> FALSE]
             ELSE ConnectionManager_connect(cm, link, server.running)
        data == TCPClient_data(Packet, now)
        seq_num == next_seq_num
        packet_id == <<now, seq_num>>
        packet_data == ReliableChannel_packet_data(data, packet_id, seq_num, now)
        w == TCPClient_send_raw(r.link, IF cli.reliable THEN packet_data ELSE data,
                                outcome)
        lost == IF cli.reliable THEN r.cm
                ELSE IF w.raised THEN ConnectionManager_connection_lost(r.cm)
                ELSE r.cm
    IN /\ cli.made
       /\ ~cli.closed
       /\ cli.sends < MaxPackets
       /\ outcome \in WriteOutcomes(r.link)
       /\ cli' = [cli EXCEPT !.sends = @ + 1,
                             !.loss_reported = @ /\ (w.raised => ~lost.connected)]
       /\ link' = w.link
       /\ StartChannel(r.opened)
       /\ IF cli.reliable
          THEN /\ next_seq_num' = SeqNext(next_seq_num)
               /\ buffer' = ReliableChannel_send(buffer, packet_id, packet_data,
                                                 now, oldest_id).after
               /\ cm' = lost
          ELSE /\ cm' = lost
               /\ UNCHANGED <<next_seq_num, buffer>>
       /\ UNCHANGED <<now, reply, srvVars, quiet, chHist, mgrVars, pktVars, lifeVars, boVars, faultVars, wireVars, pbVars, sqVars, sessVars, rlVars>>

CliSendPacketAny ==
    \E outcome \in {"sent", "lost", "reset", "refused"} :
        \E oldest_id \in (IF IsFull(buffer) THEN IterFirst(buffer.packet_ids) ELSE {NoId}) :
            CliSendPacket(outcome, oldest_id)

\* _reconnect_loop: the while condition and what precedes the sleep
ReconnectHead ==
    /\ cm.task = "head"
    /\ cm' = IF ~cm.connected /\ cm.retry_count < max_retries
             THEN [cm EXCEPT !.retry_count = @ + 1, !.task = "sleep"]
             ELSE [cm EXCEPT !.task = "done"]
    /\ UNCHANGED <<now, cli, link, reply, srvVars, chVars, mgrVars, pktVars, lifeVars, boVars, faultVars, wireVars, pbVars, sqVars, sessVars, rlVars>>

\* _reconnect_loop: what follows the sleep
ReconnectAttempt ==
    LET r == TCPClient_connect_internal(link, server.running)
    IN /\ cm.task = "sleep"
       /\ IF cm.connected
          THEN /\ cm' = [cm EXCEPT !.task = "done"]
               /\ UNCHANGED <<link, ch_shutdown, retransmit>>
          ELSE /\ cm' = [cm EXCEPT !.connected = ~r.raised, !.task = "head"]
               /\ link' = r.link
               /\ StartChannel(r.opened)
       /\ UNCHANGED <<now, cli, reply, srvVars, buffer, next_seq_num, quiet, chHist, mgrVars, pktVars, lifeVars, boVars, faultVars, wireVars, pbVars, sqVars, sessVars, rlVars>>

\* one iteration of _handle_responses on a line
CliRecvLine(outcome) ==
    LET line == Head(link.s2c)
        data == JsonLoads(line).value
        l1 == [link EXCEPT !.s2c = Tail(@)]
        is_ack == cli.reliable /\ "_ack" \in DOMAIN data
        has_meta == "_meta" \in DOMAIN data
        acks == has_meta /\ data["_meta"].requires_ack
        w == IF acks THEN TCPClient_send_raw(l1, AckFrame(data["_meta"].id), outcome)
             ELSE [link |-> l1, raised |-> FALSE]
        packet == Without(data, "_meta")
    IN /\ link.resp = "run"
       /\ link.st # "closed"
       /\ link.s2c # <<>>
       /\ outcome \in WriteOutcomes(l1)
       /\ IF is_ack
          THEN /\ buffer' = PacketBuffer_acknowledge(buffer, data["_ack"])
               /\ quiet' = FALSE
               /\ link' = l1
               /\ UNCHANGED cli
          ELSE /\ link' = w.link
               /\ cli' = IF PacketKeys \subseteq DOMAIN packet
                         THEN [cli EXCEPT !.delivered = @ \cup {UDPPacket_of(packet)}]
                         ELSE cli
               /\ UNCHANGED <<buffer, quiet>>
       /\ UNCHANGED <<now, cm, reply, srvVars, next_seq_num, ch_shutdown,
                      retransmit, chHist, mgrVars, pktVars, lifeVars, boVars, faultVars, wireVars, pbVars, sqVars, sessVars, rlVars>>

CliRecvLineAny ==
    \E outcome \in {"sent", "lost", "reset", "refused"} : CliRecvLine(outcome)

\* the iteration of _handle_responses in which readline returns b"" or raises
CliRecvEnd ==
    /\ link.resp = "run"
    /\ \/ link.st = "half" /\ link.s2c = <<>>
       \/ link.st = "closed"
    /\ link' = [link EXCEPT !.resp = "done", !.lost = TRUE]
    /\ cm' = ConnectionManager_connection_lost(cm)
    /\ UNCHANGED <<now, cli, reply, srvVars, chVars, mgrVars, pktVars, lifeVars, boVars, faultVars, wireVars, pbVars, sqVars, sessVars, rlVars>>

\* ConnectionManager.reset() as close() calls it
ConnectionManager_reset_task(c) ==
    [connected |-> FALSE, retry_count |-> 0,
     task |-> IF c.task \in {"head", "sleep"} THEN "none" ELSE c.task]

\* close(): nothing unless is_connected; else the shutdown event is set, the
\* channel is stopped, the manager is reset and the writer is closed, on
\* which the response task leaves its loop
CliClose ==
    /\ cli.made
    /\ ~cli.closed
    /\ cli' = [cli EXCEPT !.closed = TRUE]
    /\ IF ~TCPClient_is_connected(link)
       THEN UNCHANGED <<cm, link, ch_shutdown, retransmit, buffer, quiet>>
       ELSE /\ cm' = ConnectionManager_reset_task(cm)
            /\ link' = [NoLink EXCEPT !.resp = IF link.resp = "run" THEN "done"
                                               ELSE link.resp,
                                      !.lost = link.lost]
            /\ IF cli.reliable
               THEN /\ ch_shutdown' = TRUE
                    /\ retransmit' = IF retransmit.pc \in {"sleep", "send"}
                                     THEN [pc |-> "done", batch |-> <<>>]
                                     ELSE retransmit
                    /\ buffer' = PacketBuffer_clear(buffer)
                    /\ quiet' = FALSE
               ELSE UNCHANGED <<ch_shutdown, retransmit, buffer, quiet>>
    /\ UNCHANGED <<now, reply, srvVars, next_seq_num, chHist, mgrVars, pktVars, lifeVars, boVars, faultVars, wireVars, pbVars, sqVars, sessVars, rlVars>>

\* one iteration of the server's _client_loop on the client's connection
ServeLink ==
    LET line == Head(link.c2s)
        response == TCPServer_process_packet(line, now)
    IN /\ server.running
       /\ link.st = "open"
       /\ link.c2s # <<>>
       /\ link' = [link EXCEPT !.c2s = Tail(@),
                               !.s2c = IF response = None THEN @
                                       ELSE Append(@, response)]
       /\ reply' = IF "payload" \in DOMAIN JsonLoads(line).value THEN response
                   ELSE reply
       /\ UNCHANGED <<now, cli, cm, srvVars, chVars, mgrVars, pktVars, lifeVars, boVars, faultVars, wireVars, pbVars, sqVars, sessVars, rlVars>>

CliInit ==
    /\ cli = [made |-> FALSE, reliable |-> FALSE, sends |-> 0, delivered |-> {},
              closed |-> FALSE, loss_reported |-> TRUE]
    /\ cm = [connected |-> FALSE, retry_count |-> 0, task |-> "none"]
    /\ link = NoLink
    /\ reply = None

\* ------------------------------------- ConnectionManager, await by await
\* The manager on its own, with connect_func an abstract coroutine that is
\* awaited and later returns or raises.  A step runs one task from one await
\* to the next; the backoff and the 0.1 s poll end at any time.

\* asyncio.Task.done()
TaskDone(t) == t.pc \in {"done", "cancelled"}

\* a task that still executes _reconnect_loop; a task cancelled inside its
\* attempt has only the finally clause left to run ("unwind")
LoopRunning(t) == t.pc \in {"start", "sleep", "attempt"}

RunningLoops == {i \in DOMAIN loops : LoopRunning(loops[i])}

\* connect_func calls that have not returned yet
AttemptsInFlight ==
    calls.attempt + Cardinality({i \in DOMAIN loops : loops[i].pc = "attempt"})

\* mutant: a reconnection task is created whatever _reconnect_task is
ConnectionManager_needs_task_Always(m, ls) == TRUE

\* not self._reconnect_task or self._reconnect_task.done()
ConnectionManager_needs_task(m, ls) == m.task = 0 \/ TaskDone(ls[m.task])

\* asyncio.create_task(self._reconnect_loop()) behind its test
CreateLoop(m, ls, by) ==
    IF ConnectionManager_needs_task(m, ls)
    THEN [mgr |-> [m EXCEPT !.task = Len(ls) + 1],
          loops |-> Append(ls, [pc |-> "start", attempts |-> 0, by |-> by])]
    ELSE [mgr |-> m, loops |-> ls]

\* the while test of _reconnect_loop and, when it holds, the body up to the sleep
LoopHead(m, t) ==
    IF ~m.connected /\ m.retry_count < max_retries
    THEN [mgr |-> [m EXCEPT !.retry_count = @ + 1], task |-> [t EXCEPT !.pc = "sleep"]]
    ELSE [mgr |-> m, task |-> [t EXCEPT !.pc = "done"]]

\* connect() up to its first await, or to its return when connected
MgrConnect ==
    /\ calls.made < MaxCalls
    /\ IF mgr.connected
       THEN /\ calls' = [calls EXCEPT !.made = @ + 1]
            /\ UNCHANGED mgr
       ELSE IF mgr.connecting
       THEN /\ calls' = [calls EXCEPT !.made = @ + 1, !.wait = @ + 1]
            /\ UNCHANGED mgr
       ELSE /\ calls' = [calls EXCEPT !.made = @ + 1, !.attempt = @ + 1]
            /\ mgr' = [mgr EXCEPT !.connecting = TRUE, !.retry_count = 0]
    /\ since_reset' = FALSE
    /\ UNCHANGED <<loops, now, chVars, srvVars, cliVars, pktVars, lifeVars, boVars, faultVars, wireVars, pbVars, sqVars, sessVars, rlVars>>

\* connect() from the return of connect_func to its own return
MgrConnectResolve(ok) ==
    /\ calls.attempt > 0
    /\ calls' = [calls EXCEPT !.attempt = @ - 1]
    /\ IF ok
       THEN /\ mgr' = [mgr EXCEPT !.connected = TRUE, !.last_error = FALSE,
                                  !.connecting = FALSE]
            /\ UNCHANGED loops
       ELSE LET r == CreateLoop([mgr EXCEPT !.last_error = TRUE,
                                            !.connected = FALSE], loops, "connect")
            IN /\ Len(r.loops) <= MaxLoops
               /\ mgr' = [r.mgr EXCEPT !.connecting = FALSE]
               /\ loops' = r.loops
    /\ UNCHANGED <<since_reset, now, chVars, srvVars, cliVars, pktVars, lifeVars, boVars, faultVars, wireVars, pbVars, sqVars, sessVars, rlVars>>

MgrConnectResolveAny == \E ok \in BOOLEAN : MgrConnectResolve(ok)

\* connect() polling _connecting: the return once it is seen cleared
MgrWaitReturn ==
    /\ calls.wait > 0
    /\ ~mgr.connecting
    /\ calls' = [calls EXCEPT !.wait = @ - 1]
    /\ UNCHANGED <<mgr, loops, since_reset, now, chVars, srvVars, cliVars, pktVars, lifeVars, boVars, faultVars, wireVars, pbVars, sqVars, sessVars, rlVars>>

\* connection_lost(); a call that changes nothing is left out
MgrLost ==
    /\ mgr.connected \/ since_reset
    /\ IF ~mgr.connected
       THEN UNCHANGED <<mgr, loops>>
       ELSE LET r == CreateLoop([mgr EXCEPT !.connected = FALSE], loops, "lost")
            IN /\ Len(r.loops) <= MaxLoops
               /\ mgr' = r.mgr
               /\ loops' = r.loops
    /\ since_reset' = FALSE
    /\ UNCHANGED <<calls, now, chVars, srvVars, cliVars, pktVars, lifeVars, boVars, faultVars, wireVars, pbVars, sqVars, sessVars, rlVars>>

\* reset(); cancel() takes effect when the task is next run: a task waiting
\* in sleep or not yet started ends there, one inside its attempt runs finally
ConnectionManager_reset(m, ls) ==
    LET cleared == [m EXCEPT !.connected = FALSE, !.connecting = FALSE,
                             !.retry_count = 0, !.last_error = FALSE]
    IN IF m.task # 0 /\ ~TaskDone(ls[m.task])
       THEN [mgr |-> [cleared EXCEPT !.task = 0],
             loops |-> [ls EXCEPT ![m.task].pc =
                           IF @ = "attempt" THEN "unwind" ELSE "cancelled"]]
       ELSE [mgr |-> cleared, loops |-> ls]

MgrReset ==
    /\ LET r == ConnectionManager_reset(mgr, loops)
       IN mgr' = r.mgr /\ loops' = r.loops
    /\ since_reset' = TRUE
    /\ UNCHANGED <<calls, now, chVars, srvVars, cliVars, pktVars, lifeVars, boVars, faultVars, wireVars, pbVars, sqVars, sessVars, rlVars>>

\* the first step of a new reconnection task
LoopStart(i) ==
    /\ loops[i].pc = "start"
    /\ LET r == LoopHead(mgr, loops[i])
       IN mgr' = r.mgr /\ loops' = [loops EXCEPT ![i] = r.task]
    /\ UNCHANGED <<calls, since_reset, now, chVars, srvVars, cliVars, pktVars, lifeVars, boVars, faultVars, wireVars, pbVars, sqVars, sessVars, rlVars>>

LoopStartAny == \E i \in DOMAIN loops : LoopStart(i)

\* the end of the backoff sleep: break when connected, else call connect_func
LoopWake(i) ==
    /\ loops[i].pc = "sleep"
    /\ IF mgr.connected
       THEN /\ loops' = [loops EXCEPT ![i].pc = "done"]
            /\ UNCHANGED mgr
       ELSE /\ loops' = [loops EXCEPT ![i].pc = "attempt", ![i].attempts = @ + 1]
            /\ mgr' = [mgr EXCEPT !.connecting = TRUE]
    /\ UNCHANGED <<calls, since_reset, now, chVars, srvVars, cliVars, pktVars, lifeVars, boVars, faultVars, wireVars, pbVars, sqVars, sessVars, rlVars>>

LoopWakeAny == \E i \in DOMAIN loops : LoopWake(i)

\* from the return of connect_func through finally to the next sleep or the end
LoopResolve(i, ok) ==
    /\ loops[i].pc = "attempt"
    /\ LET after == IF ok
                    THEN [mgr EXCEPT !.connected = TRUE, !.last_error = FALSE,
                                     !.connecting = FALSE]
                    ELSE [mgr EXCEPT !.last_error = TRUE, !.connecting = FALSE]
           r == LoopHead(after, loops[i])
       IN mgr' = r.mgr /\ loops' = [loops EXCEPT ![i] = r.task]
    /\ UNCHANGED <<calls, since_reset, now, chVars, srvVars, cliVars, pktVars, lifeVars, boVars, faultVars, wireVars, pbVars, sqVars, sessVars, rlVars>>

LoopResolveAny == \E i \in DOMAIN loops, ok \in BOOLEAN : LoopResolve(i, ok)

\* CancelledError thrown into the attempt of a cancelled task: finally runs
LoopUnwind(i) ==
    /\ loops[i].pc = "unwind"
    /\ loops' = [loops EXCEPT ![i].pc = "cancelled"]
    /\ mgr' = [mgr EXCEPT !.connecting = FALSE]
    /\ UNCHANGED <<calls, since_reset, now, chVars, srvVars, cliVars, pktVars, lifeVars, boVars, faultVars, wireVars, pbVars, sqVars, sessVars, rlVars>>

LoopUnwindAny == \E i \in DOMAIN loops : LoopUnwind(i)

SrvInit ==
    /\ server = [running |-> FALSE, shutdown |-> FALSE]
    /\ clients = {}
    /\ conn = [c \in Conns |-> FreeConn]
    /\ n_lines = 0
    /\ echo_exact = TRUE
    /\ isolated = TRUE
    /\ error_replied = TRUE
    /\ stops = [calls |-> {}, idle |-> TRUE]

ChInit ==
    /\ buffer = EmptyBuffer
    /\ next_seq_num = SeqZero
    /\ retransmit = [pc |-> "none", batch |-> <<>>]
    /\ ch_shutdown = FALSE
    /\ pending_sends = {}
    /\ n_sends = 0
    /\ quiet = TRUE
    /\ evict_fifo = TRUE
    /\ watched = NoId
    /\ tx = [n |-> 0, buffered |-> FALSE]
    /\ ack_at = -1
    /\ send_result = NoResult

\* ---------------------------------------------------------------- UDPPacket
\* A Python value is [type, value], the value a sequence: the bytes, the items,
\* the one number, or nothing for None; two values are compared type first, as
\* values of different types are unequal.
Py(type, value) == [type |-> type, value |-> value]

PyNone == Py("NoneType", <<>>)

PyEq(a, b) == a.type = b.type /\ a.value = b.value

\* the bytes a payload is made of
ByteValues == {0, 255}

RECURSIVE BytesUpTo(_)
\* the byte strings of at most n bytes
BytesUpTo(n) ==
    IF n = 0 THEN {<<>>}
    ELSE BytesUpTo(n - 1) \cup
         {Append(b, x) : b \in {c \in BytesUpTo(n - 1) : Len(c) = n - 1}, x \in ByteValues}

\* what is passed as payload: bytes, and values that are not bytes, with and
\* without a length
PayloadValues ==
    {Py("bytes", b) : b \in BytesUpTo(MaxPayload)}
        \cup {Py("str", <<72>>), Py("list", <<1, 2>>), Py("int", <<5>>), PyNone}

\* an address is a text of numbers joined by dots, held as the numbers; a
\* host name holds none
AddrValues ==
    {Py("str", parts) :
        parts \in {<<127, 0, 0, 1>>, <<127, 1>>, <<256, 0, 0, 1>>, <<1, 2, 3, 4, 5>>, <<>>}}

PortValues == {Py("int", <<n>>) : n \in {-1, 0, 65535, 65536}}

\* len(x): the length, or TypeError
HasLen(v) == v.type \in {"bytes", "str", "list"}

\* socket.inet_aton: one to four numbers, all but the last below 256 and the
\* last filling the bytes that remain; anything else is socket.error
InetAtonOk(a) ==
    LET parts == a.value
        n == Len(parts)
    IN /\ n \in 1..4
       /\ \A i \in 1..(n - 1) : parts[i] <= 255
       /\ CASE n = 4 -> parts[n] <= 255
            [] n = 3 -> parts[n] <= 65535
            [] n = 2 -> parts[n] \div 256 <= 65535
            [] OTHER -> parts[n] \div Half <= 65535

PortInRange(p) == 0 <= p.value[1] /\ p.value[1] <= 65535

\* UDPPacket(...): __post_init__ and _validate, in the order of the code;
\* raised is "" or the name of the exception
UDPPacket_new(payload, source_addr, source_port, dest_addr, dest_port, timestamp) ==
    LET failed(e) == [raised |-> e, packet |-> PyNone]
    IN IF ~HasLen(payload) THEN failed("TypeError")
       ELSE IF payload.type # "bytes" THEN failed("ValueError")
       ELSE IF ~PortInRange(source_port) THEN failed("ValueError")
       ELSE IF dest_port.type # "NoneType" /\ ~PortInRange(dest_port)
       THEN failed("ValueError")
       ELSE IF ~InetAtonOk(source_addr) THEN failed("ValueError")
       ELSE IF dest_addr.type # "NoneType" /\ ~InetAtonOk(dest_addr)
       THEN failed("ValueError")
       ELSE [raised |-> "",
             packet |-> [payload |-> payload, source_addr |-> source_addr,
                         source_port |-> source_port, dest_addr |-> dest_addr,
                         dest_port |-> dest_port, timestamp |-> timestamp,
                         size |-> Py("int", <<Len(payload.value)>>)]]

UDPPacket_to_dict(p) ==
    [payload |-> Py("str", Hex(p.payload.value)), source_addr |-> p.source_addr,
     source_port |-> p.source_port, dest_addr |-> p.dest_addr,
     dest_port |-> p.dest_port, timestamp |-> p.timestamp, size |-> p.size]

\* dict.get(key): the value, or None
DictGetOrNone(data, key) == IF key \in DOMAIN data THEN data[key] ELSE PyNone

\* mutant: from_dict that does not pass the destination on
UDPPacket_from_dict_NoDest(data) ==
    IF {"payload", "source_addr", "source_port"} \subseteq DOMAIN data
    THEN LET r == UDPPacket_new(Py("bytes", FromHex(data["payload"].value)),
                                data["source_addr"], data["source_port"],
                                PyNone, PyNone, DictGetOrNone(data, "timestamp"))
         IN r
    ELSE [raised |-> "ValueError", packet |-> PyNone]

\* from_dict: KeyError and ValueError become ValueError, others pass
UDPPacket_from_dict(data) ==
    IF {"payload", "source_addr", "source_port"} \subseteq DOMAIN data
    THEN UDPPacket_new(Py("bytes", FromHex(data["payload"].value)),
                       data["source_addr"], data["source_port"],
                       DictGetOrNone(data, "dest_addr"),
                       DictGetOrNone(data, "dest_port"),
                       DictGetOrNone(data, "timestamp"))
    ELSE [raised |-> "ValueError", packet |-> PyNone]

\* json.dumps of a value: None is null, numbers are numbers, str is a string
JsonValue(v) ==
    CASE v.type = "NoneType" -> [json |-> "null", value |-> <<>>]
      [] v.type \in {"int", "float"} -> [json |-> "number", value |-> v]
      [] OTHER -> [json |-> "string", value |-> v.value]

\* json.loads of a value
PyValue(j) ==
    CASE j.json = "null" -> PyNone
      [] j.json = "number" -> j.value
      [] OTHER -> Py("str", j.value)

UDPPacket_to_json(p) ==
    LET data == UDPPacket_to_dict(p)
    IN JsonDumps([k \in DOMAIN data |-> JsonValue(data[k])])

\* from_json: JSONDecodeError becomes ValueError
UDPPacket_from_json(json_str) ==
    LET r == JsonLoads(json_str)
    IN IF r.ok
       THEN UDPPacket_from_dict([k \in DOMAIN r.value |-> PyValue(r.value[k])])
       ELSE [raised |-> "ValueError", packet |-> PyNone]

\* str.encode('utf-8') and bytes.decode('utf-8')
Utf8Encode(text) == [encoding |-> "utf-8", text |-> text]

UDPPacket_to_bytes(p) == Utf8Encode(UDPPacket_to_json(p))

\* from_bytes: UnicodeDecodeError becomes ValueError
UDPPacket_from_bytes(data) ==
    IF data.encoding = "utf-8" THEN UDPPacket_from_json(data.text)
    ELSE [raised |-> "ValueError", packet |-> PyNone]

Forms == {"dict", "json", "bytes"}

\* UDPPacket(payload, source_addr, source_port, dest_addr, dest_port)
PktConstruct(payload, source_addr, source_port, dest_addr, dest_port) ==
    LET r == UDPPacket_new(payload, source_addr, source_port, dest_addr,
                           dest_port, Py("float", <<now>>))
    IN /\ pkt.stage = "none"
       /\ pkt' = [pkt EXCEPT !.stage = IF r.raised = "" THEN "made" ELSE "failed",
                             !.args = <<payload, source_addr, source_port,
                                        dest_addr, dest_port>>,
                             !.raised = r.raised,
                             !.packet = r.packet]
       /\ UNCHANGED <<now, chVars, srvVars, cliVars, mgrVars, lifeVars, boVars, faultVars, wireVars, pbVars, sqVars, sessVars, rlVars>>

PktConstructAny ==
    \E payload \in PayloadValues, source_addr \in AddrValues,
       source_port \in PortValues, dest_addr \in AddrValues \cup {PyNone},
       dest_port \in PortValues \cup {PyNone} :
        PktConstruct(payload, source_addr, source_port, dest_addr, dest_port)

\* to_dict(), to_json() or to_bytes() of the packet
PktEncode(form) ==
    /\ pkt.stage = "made"
    /\ pkt' = [pkt EXCEPT !.stage = "encoded", !.form = form,
                          !.wire = CASE form = "dict" -> UDPPacket_to_dict(pkt.packet)
                                     [] form = "json" -> UDPPacket_to_json(pkt.packet)
                                     [] OTHER -> UDPPacket_to_bytes(pkt.packet)]
    /\ UNCHANGED <<now, chVars, srvVars, cliVars, mgrVars, lifeVars, boVars, faultVars, wireVars, pbVars, sqVars, sessVars, rlVars>>

PktEncodeAny == \E form \in Forms : PktEncode(form)

\* from_dict(), from_json() or from_bytes() of what was encoded
PktDecode ==
    /\ pkt.stage = "encoded"
    /\ pkt' = [pkt EXCEPT !.stage = "decoded",
                          !.back = CASE pkt.form = "dict" -> UDPPacket_from_dict(pkt.wire)
                                     [] pkt.form = "json" -> UDPPacket_from_json(pkt.wire)
                                     [] OTHER -> UDPPacket_from_bytes(pkt.wire)]
    /\ UNCHANGED <<now, chVars, srvVars, cliVars, mgrVars, lifeVars, boVars, faultVars, wireVars, pbVars, sqVars, sessVars, rlVars>>

PktInit ==
    pkt = [stage |-> "none", args |-> <<>>, raised |-> "", packet |-> PyNone,
           form |-> "", wire |-> PyNone, back |-> [raised |-> "", packet |-> PyNone]]

\* ------------------------------------- ReliableChannel.start / stop, await by await
\* The retransmit tasks created so far are chan.tasks: "run" while the loop is
\* suspended in one of its awaits, "cancelling" once cancel() was called on
\* it and it has not run since, "done" when it has ended. chan.task is
\* _retransmit_task (0 for None), chan.awaiting the tasks that stop() calls
\* are suspended on, chan.packets the size of the buffer.
RetransmitLoopsRunning == Cardinality({t \in 1..Len(chan.tasks) : chan.tasks[t] # "done"})

\* start(): `not self._retransmit_task or self._retransmit_task.done()`
ReliableChannel_start_task(c) == c.task = 0 \/ c.tasks[c.task] = "done"

\* start()
ChStart ==
    /\ ReliableChannel_start_task(chan) => Len(chan.tasks) < MaxStarts
    /\ chan' = IF ReliableChannel_start_task(chan)
               THEN [chan EXCEPT !.shutdown = FALSE,
                                 !.tasks = Append(chan.tasks, "run"),
                                 !.task = Len(chan.tasks) + 1]
               ELSE [chan EXCEPT !.shutdown = FALSE]
    /\ chan' # chan
    /\ UNCHANGED <<now, chVars, srvVars, cliVars, mgrVars, pktVars, boVars, faultVars, wireVars, pbVars, sqVars, sessVars, rlVars>>

\* what stop() leaves when it returns: buffer.clear(), and for the record the
\* loops running and the packets buffered at that moment
StopReturns(c) ==
    [c EXCEPT !.packets = 0,
              !.returned = [n |-> IF c.returned.n < MaxStops THEN c.returned.n + 1
                                  ELSE c.returned.n,
                            loops |-> Cardinality({t \in 1..Len(c.tasks) : c.tasks[t] # "done"}),
                            packets |-> 0]]

\* stop() up to its await: the event is set and the task cancelled; with no
\* task to wait for it clears the buffer and returns at once
ChStopCall ==
    /\ chan.returned.n + Cardinality(chan.awaiting) < MaxStops
    /\ IF chan.task # 0 /\ chan.tasks[chan.task] # "done"
       THEN chan' = [chan EXCEPT !.shutdown = TRUE,
                                 !.tasks[chan.task] = "cancelling",
                                 !.awaiting = chan.awaiting \cup {chan.task}]
       ELSE chan' = StopReturns([chan EXCEPT !.shutdown = TRUE])
    /\ UNCHANGED <<now, chVars, srvVars, cliVars, mgrVars, pktVars, boVars, faultVars, wireVars, pbVars, sqVars, sessVars, rlVars>>

\* stop() resumes once the task it awaits has ended
ChStopReturn(t) ==
    /\ t \in chan.awaiting
    /\ chan.tasks[t] = "done"
    /\ chan' = StopReturns([chan EXCEPT !.awaiting = chan.awaiting \ {t}])
    /\ UNCHANGED <<now, chVars, srvVars, cliVars, mgrVars, pktVars, boVars, faultVars, wireVars, pbVars, sqVars, sessVars, rlVars>>

ChStopReturnAny == \E t \in 1..MaxStarts : ChStopReturn(t)

\* the retransmit task runs: CancelledError ends a cancelled one at its await
\* (it is not an Exception, so neither except clause holds it), and one that
\* wakes from its sleep with the event set leaves its while loop
ChLoopEnd(t) ==
    /\ t \in 1..Len(chan.tasks)
    /\ \/ chan.tasks[t] = "cancelling"
       \/ chan.tasks[t] = "run" /\ chan.shutdown
    /\ chan' = [chan EXCEPT !.tasks[t] = "done"]
    /\ UNCHANGED <<now, chVars, srvVars, cliVars, mgrVars, pktVars, boVars, faultVars, wireVars, pbVars, sqVars, sessVars, rlVars>>

ChLoopEndAny == \E t \in 1..MaxStarts : ChLoopEnd(t)

\* send(): the packet is in the buffer before it is sent
ChBuffer ==
    /\ chan.packets < MaxBuffered
    /\ chan' = [chan EXCEPT !.packets = chan.packets + 1]
    /\ UNCHANGED <<now, chVars, srvVars, cliVars, mgrVars, pktVars, boVars, faultVars, wireVars, pbVars, sqVars, sessVars, rlVars>>

LifeInit ==
    chan = [tasks |-> <<>>, task |-> 0, shutdown |-> FALSE, awaiting |-> {},
            packets |-> 0, returned |-> [n |-> 0, loops |-> 0, packets |-> 0]]

\* -------------------------------- ConnectionManager backoff, in milliseconds
\* bo is a ConnectionManager made with arguments of the caller's choice, with
\* what its one reconnection task last computed: bo.plain holds the last two
\* values of min(initial_backoff * 2**retry_count, max_backoff) computed by
\* the task now running, bo.delay what _calculate_backoff last returned.
RetryLimits == {1, 3}

BackoffValues == {50, 1000, 4000}

\* jitter, in tenths
JitterValues == {0, 1}

\* `return max(backoff, 0.1)`
MinBackoff == 100

NoManager ==
    [made |-> FALSE, max_retries |-> 0, initial_backoff |-> 0, max_backoff |-> 0,
     jitter |-> 0, connected |-> FALSE, connecting |-> FALSE, retry_count |-> 0,
     call |-> "none", loop |-> "none", plain |-> <<>>, delay |-> -1]

Min(a, b) == IF a <= b THEN a ELSE b

Max(a, b) == IF a >= b THEN a ELSE b

\* min(initial_backoff * 2**retry_count, max_backoff)
PlainBackoff(m) == Min(m.initial_backoff * 2^(m.retry_count), m.max_backoff)

\* _calculate_backoff(): random.uniform gives any value between its ends, of
\* which the ends and the middle are taken
ConnectionManager_calculate_backoff(m) ==
    LET backoff == PlainBackoff(m)
        jitter_amount == (backoff * m.jitter) \div 10
    IN {Max(backoff + u, MinBackoff) : u \in {-jitter_amount, 0, jitter_amount}}

\* ConnectionManager(connect_func, max_retries, initial_backoff, max_backoff, jitter)
BoNew(mr, ib, mb, j) ==
    /\ ~bo.made
    /\ bo' = [NoManager EXCEPT !.made = TRUE, !.max_retries = mr,
                               !.initial_backoff = ib, !.max_backoff = mb,
                               !.jitter = j]
    /\ UNCHANGED <<now, chVars, srvVars, cliVars, mgrVars, pktVars, lifeVars, faultVars, wireVars, pbVars, sqVars, sessVars, rlVars>>

BoNewAny ==
    \E mr \in RetryLimits, ib \in BackoffValues, mb \in BackoffValues,
       j \in JitterValues : BoNew(mr, ib, mb, j)

\* a new task for _reconnect_loop unless one is running
BoCreateTask(m) ==
    IF m.loop \in {"none", "done"} THEN [m EXCEPT !.loop = "start", !.plain = <<>>]
    ELSE m

\* the head of the while loop of _reconnect_loop, up to the sleep; d is what
\* _calculate_backoff returns
BoLoopHead(m, d) ==
    IF ~m.connected /\ m.retry_count < m.max_retries
    THEN LET n == [m EXCEPT !.retry_count = @ + 1]
         IN [n EXCEPT !.loop = "sleep",
                      !.plain = IF m.plain = <<>> THEN <<PlainBackoff(n)>>
                                ELSE <<m.plain[Len(m.plain)], PlainBackoff(n)>>,
                      !.delay = d]
    ELSE [m EXCEPT !.loop = "done"]

\* connect() up to `await self.connect_func()`; a call that finds the manager
\* connected or connecting changes nothing
BoConnect ==
    /\ bo.made /\ ~bo.connected /\ ~bo.connecting /\ bo.call = "none"
    /\ bo' = [bo EXCEPT !.connecting = TRUE, !.retry_count = 0, !.call = "attempt"]
    /\ UNCHANGED <<now, chVars, srvVars, cliVars, mgrVars, pktVars, lifeVars, faultVars, wireVars, pbVars, sqVars, sessVars, rlVars>>

\* connect() from the return of connect_func
BoConnectResolve(ok) ==
    /\ bo.call = "attempt"
    /\ bo' = IF ok
             THEN [bo EXCEPT !.connected = TRUE, !.connecting = FALSE, !.call = "none"]
             ELSE BoCreateTask([bo EXCEPT !.connected = FALSE, !.connecting = FALSE,
                                          !.call = "none"])
    /\ UNCHANGED <<now, chVars, srvVars, cliVars, mgrVars, pktVars, lifeVars, faultVars, wireVars, pbVars, sqVars, sessVars, rlVars>>

BoConnectResolveAny == \E ok \in BOOLEAN : BoConnectResolve(ok)

\* connection_lost()
BoLost ==
    /\ bo.connected
    /\ bo' = BoCreateTask([bo EXCEPT !.connected = FALSE])
    /\ UNCHANGED <<now, chVars, srvVars, cliVars, mgrVars, pktVars, lifeVars, faultVars, wireVars, pbVars, sqVars, sessVars, rlVars>>

\* the task runs for the first time
BoLoopStart ==
    /\ bo.loop = "start"
    /\ \E d \in ConnectionManager_calculate_backoff([bo EXCEPT !.retry_count = @ + 1]) :
          bo' = BoLoopHead(bo, d)
    /\ UNCHANGED <<now, chVars, srvVars, cliVars, mgrVars, pktVars, lifeVars, faultVars, wireVars, pbVars, sqVars, sessVars, rlVars>>

\* the end of the sleep: break when connected, else call connect_func
BoLoopWake ==
    /\ bo.loop = "sleep"
    /\ bo' = IF bo.connected THEN [bo EXCEPT !.loop = "done"]
             ELSE [bo EXCEPT !.loop = "attempt", !.connecting = TRUE]
    /\ UNCHANGED <<now, chVars, srvVars, cliVars, mgrVars, pktVars, lifeVars, faultVars, wireVars, pbVars, sqVars, sessVars, rlVars>>

\* from the return of connect_func through finally to the next sleep or the end
BoLoopResolve(ok) ==
    /\ bo.loop = "attempt"
    /\ LET after == IF ok THEN [bo EXCEPT !.connected = TRUE, !.connecting = FALSE]
                    ELSE [bo EXCEPT !.connecting = FALSE]
       IN \E d \in ConnectionManager_calculate_backoff([after EXCEPT !.retry_count = @ + 1]) :
             bo' = BoLoopHead(after, d)
    /\ UNCHANGED <<now, chVars, srvVars, cliVars, mgrVars, pktVars, lifeVars, faultVars, wireVars, pbVars, sqVars, sessVars, rlVars>>

BoLoopResolveAny == \E ok \in BOOLEAN : BoLoopResolve(ok)

BoInit == bo = NoManager

\* ------------------------------ ReliableChannel over a connection that comes and goes
\* wire is the stream the TCPClient holds: up says that is_connected holds,
\* conns counts the streams opened so far and seen is the number of send_func
\* invocations the watched packet had when the present stream was opened.

\* mutant: a connect that does not start the retransmit task
ReliableChannel_started_NoTask(r) == r

\* start(): the task afterwards
ReliableChannel_started(r) ==
    IF r.pc \in {"none", "done"} THEN [pc |-> "sleep", batch |-> <<>>] ELSE r

\* _connect_internal on a client that is not connected: a stream is opened and
\* the channel is started
WireUp ==
    /\ ~Running
    /\ ~wire.up
    /\ wire.conns < MaxWires
    /\ wire' = [up |-> TRUE, conns |-> wire.conns + 1, seen |-> tx.n]
    /\ ch_shutdown' = FALSE
    /\ retransmit' = ReliableChannel_started(retransmit)
    /\ UNCHANGED <<now, buffer, next_seq_num, pending_sends, n_sends, quiet,
                   evict_fifo, watched, tx, ack_at, send_result, srvVars, cliVars,
                   mgrVars, pktVars, lifeVars, boVars, faultVars, pbVars, sqVars, sessVars, rlVars>>

\* the stream is lost: its writer is closing
WireDown ==
    /\ ~Running
    /\ wire.up
    /\ wire' = [wire EXCEPT !.up = FALSE]
    /\ UNCHANGED <<now, chVars, srvVars, cliVars, mgrVars, pktVars, lifeVars,
                   boVars, faultVars, pbVars, sqVars, sessVars, rlVars>>

\* send() while not connected: _send_raw raises ConnectionError before it
\* writes, and send() returns the id; one such packet is watched
WireSendDown ==
    /\ ~wire.up
    /\ n_sends < MaxLiveSends
    /\ \E data \in [{"payload"} -> Payloads], watch \in BOOLEAN :
        \E oldest_id \in (IF IsFull(buffer) THEN IterFirst(buffer.packet_ids) ELSE {NoId}) :
            Send(data, oldest_id, "raise", watch)

\* send() while connected
WireSendUp ==
    /\ wire.up
    /\ n_sends < MaxLiveSends
    /\ \E data \in [{"payload"} -> Payloads], outcome \in {"ok", "raise"} :
        \E oldest_id \in (IF IsFull(buffer) THEN IterFirst(buffer.packet_ids) ELSE {NoId}) :
            Send(data, oldest_id, outcome, FALSE)

\* an acknowledgment is read from the stream
WireAcknowledge == wire.up /\ AcknowledgeAny

\* the retransmit loop calls send_func: _send_raw raises at once while not
\* connected, else it writes to the stream and awaits drain()
WireRetransmitStep ==
    \E outcome \in SendOutcomes :
        /\ ~wire.up => outcome = "raise"
        /\ RetransmitStep(outcome)

WireInit == wire = [up |-> FALSE, conns |-> 0, seen |-> 0]

\* ----------------------------------------------- PacketBuffer, call by call
\* pb is a PacketBuffer with the last call made on it: pb.before is the
\* buffer as the call found it, pb.at the time.time() of the call,
\* pb.returned the time get_unacknowledged() last returned each entry (pb.was:
\* the same before the call), pb.acked the ids acknowledged so far.
BufferIds == {<<0, <<0, s>>>> : s \in 0..1}

NoTime == 0 - 1

BufferData == [payload |-> "48656c6c6f"]

NoCall ==
    [buf |-> EmptyBuffer, op |-> "none", arg |-> NoId, before |-> EmptyBuffer,
     at |-> 0, result |-> <<>>, raised |-> FALSE, again |-> FALSE,
     returned |-> [id \in BufferIds |-> NoTime],
     was |-> [id \in BufferIds |-> NoTime], acked |-> {}]

\* add(packet_id, packet_data)
PbAdd(packet_id, oldest_id) ==
    /\ pb' = [pb EXCEPT !.buf = PacketBuffer_add(pb.buf, packet_id, BufferData,
                                                 now, oldest_id),
                        !.op = "add", !.arg = packet_id, !.before = pb.buf,
                        !.at = now, !.result = <<>>, !.raised = FALSE,
                        !.again = FALSE,
                        !.was = pb.returned,
                        !.returned = [id \in BufferIds |->
                            IF id \in {packet_id, oldest_id} THEN NoTime
                            ELSE pb.returned[id]]]
    /\ UNCHANGED <<now, chVars, srvVars, cliVars, mgrVars, pktVars, lifeVars,
                   boVars, faultVars, wireVars, sqVars, sessVars, rlVars>>

PbAddAny ==
    \E packet_id \in BufferIds :
        \E oldest_id \in (IF IsFull(pb.buf) THEN IterFirst(pb.buf.packet_ids)
                          ELSE {NoId}) :
            PbAdd(packet_id, oldest_id)

\* acknowledge(packet_id): set.remove raises KeyError for an id the set does
\* not hold
PbAcknowledge(packet_id) ==
    /\ pb' = [pb EXCEPT !.buf = PacketBuffer_acknowledge(pb.buf, packet_id),
                        !.op = "acknowledge", !.arg = packet_id,
                        !.before = pb.buf, !.at = now, !.result = <<>>,
                        !.raised = (packet_id \in DictKeys(pb.buf.packets)
                                    /\ packet_id \notin pb.buf.packet_ids),
                        !.again = (packet_id \in pb.acked),
                        !.was = pb.returned,
                        !.returned = [@ EXCEPT ![packet_id] = NoTime],
                        !.acked = @ \cup {packet_id}]
    /\ UNCHANGED <<now, chVars, srvVars, cliVars, mgrVars, pktVars, lifeVars,
                   boVars, faultVars, wireVars, sqVars, sessVars, rlVars>>

PbAcknowledgeAny == \E packet_id \in BufferIds : PbAcknowledge(packet_id)

\* get_unacknowledged()
PbGetUnacknowledged ==
    /\ LET r == PacketBuffer_get_unacknowledged(pb.buf, now)
       IN pb' = [pb EXCEPT !.buf = r.buf, !.op = "get_unacknowledged",
                           !.arg = NoId, !.before = pb.buf, !.at = now,
                           !.result = r.result, !.raised = FALSE,
                           !.again = FALSE, !.was = pb.returned,
                           !.returned = [id \in BufferIds |->
                               IF \E i \in 1..Len(r.result) : r.result[i].id = id
                               THEN now ELSE pb.returned[id]]]
    /\ UNCHANGED <<now, chVars, srvVars, cliVars, mgrVars, pktVars, lifeVars,
                   boVars, faultVars, wireVars, sqVars, sessVars, rlVars>>

PbInit == pb = NoCall

\* ------------------------------------ ReliableChannel, sequence numbers only
\* sq is a ReliableChannel seen through its counter: sq.next_seq_num is
\* _next_seq_num, sq.seq the number the last send() was given, sq.prev the one
\* the send() before it was given (NoSeq when that send was not watched),
\* sq.id and sq.meta the id that send() returned and the _meta it wrote.
NoSeq == <<0 - 1, 0 - 1>>

FreshCounter ==
    [next_seq_num |-> SeqZero, n |-> 0, first |-> TRUE, was_first |-> FALSE,
     seq |-> NoSeq,
     prev |-> NoSeq, id |-> NoId, meta_seq |-> NoSeq, meta_id |-> NoId]

\* counter values a long run of send() calls leaves behind
LateCounters ==
    {<<h, l>> : h \in {0, 1, Half - 1}, l \in {1, Half - 2, Half - 1}}

\* send(data) up to the buffer.add
SqSend ==
    /\ sq.n < MaxWatched
    /\ LET seq_num == sq.next_seq_num
           packet_id == <<now, seq_num>>
           packet_data == ReliableChannel_packet_data(
                              [payload |-> "48656c6c6f", source_port |-> 1],
                              packet_id, seq_num, now)
       IN sq' = [next_seq_num |-> SeqNext(sq.next_seq_num), n |-> sq.n + 1,
                 first |-> FALSE, was_first |-> sq.first, seq |-> seq_num,
                 prev |-> IF sq.n = 0 THEN NoSeq ELSE sq.seq,
                 id |-> packet_id,
                 meta_seq |-> packet_data["_meta"].seq,
                 meta_id |-> packet_data["_meta"].id]
    /\ UNCHANGED <<now, chVars, srvVars, cliVars, mgrVars, pktVars, lifeVars,
                   boVars, faultVars, wireVars, pbVars, sessVars, rlVars>>

\* a run of send() calls nobody watches: the counter ends at c
SqSendMany(c) ==
    /\ sq.n = 0
    /\ sq.first
    /\ sq' = [sq EXCEPT !.next_seq_num = c, !.first = FALSE]
    /\ UNCHANGED <<now, chVars, srvVars, cliVars, mgrVars, pktVars, lifeVars,
                   boVars, faultVars, wireVars, pbVars, sessVars, rlVars>>

SqSendManyAny == \E c \in LateCounters : SqSendMany(c)

SqInit == sq = FreshCounter

\* ------------------------------------------- one session, statement by statement
\* sess is one run of _client_loop: sess.pc is the statement it is at ("read":
\* awaiting readline, "process": readline has returned, "write": the response
\* is computed, "drain": writer.write is called, "done": the loop has ended),
\* sess.frames the lines readline has taken off the stream so far (what a line
\* holds is drawn when it is read), sess.resp what _process_packet returned
\* for each (None also where it was not called), sess.writes the writer.write
\* calls in order, each with the number of the frame it answers (0 for a
\* heartbeat), sess.errs is consecutive_errors.
NewSession ==
    [pc |-> "read", frames |-> <<>>, resp |-> <<>>, writes |-> <<>>, errs |-> 0]

\* a frame that asks for an acknowledgment but is longer than the limit of
\* the StreamReader, one that carries _ack beside such a _meta, and one whose
\* id is the empty string
SessionLines ==
    {JsonDumps(PlainFrame(1)),
     JsonDumps(WithAck(MetaFrame(1), TRUE)),
     [JsonDumps(WithAck(MetaFrame(1), TRUE)) EXCEPT !.long = TRUE],
     JsonDumps(AckFrame(<<0, SeqZero>>) @@ WithAck(MetaFrame(1), TRUE)),
     JsonDumps([MetaFrame(1) EXCEPT !["_meta"] = [@ EXCEPT !.id = <<>>]]),
     JsonDumps(AckFrame(<<0, SeqZero>>)),
     Garbage,
     Binary}

\* the except Exception block of _client_loop
SessionError(s) ==
    [s EXCEPT !.errs = @ + 1,
              !.pc = IF s.errs + 1 >= max_consecutive_errors THEN "done"
                     ELSE "read"]

\* readline returns a line or raises ValueError for one that is too long
SessReadline(line) ==
    /\ sess.pc = "read"
    /\ Len(sess.frames) < MaxFrames
    /\ sess' = IF line.long
               THEN SessionError([sess EXCEPT !.frames = Append(@, line),
                                              !.resp = Append(@, None)])
               ELSE [sess EXCEPT !.frames = Append(@, line),
                                 !.resp = Append(@, None),
                                 !.errs = 0, !.pc = "process"]
    /\ UNCHANGED <<now, chVars, srvVars, cliVars, mgrVars, pktVars, lifeVars,
                   boVars, faultVars, wireVars, pbVars, sqVars, rlVars>>

SessReadlineAny == \E line \in SessionLines : SessReadline(line)

\* mutant: the loop goes back to readline with the response still to write
ClientLoop_after_process_Deferred(response) == "read"

\* _client_loop: if response:
ClientLoop_after_process(response) ==
    IF response # None THEN "write" ELSE "read"

\* data.decode().strip() and _process_packet
SessProcess ==
    /\ sess.pc = "process"
    /\ LET line == sess.frames[Len(sess.frames)]
           response == TCPServer_process_packet(line, now)
       IN sess' = IF line.text = "binary"
                  THEN SessionError(sess)
                  ELSE [sess EXCEPT !.resp[Len(sess.frames)] = response,
                                    !.pc = ClientLoop_after_process(response)]
    /\ UNCHANGED <<now, chVars, srvVars, cliVars, mgrVars, pktVars, lifeVars,
                   boVars, faultVars, wireVars, pbVars, sqVars, rlVars>>

\* client.writer.write(response_data)
SessWrite ==
    /\ sess.pc = "write"
    /\ sess' = [sess EXCEPT !.writes = Append(@, [cause |-> Len(sess.frames),
                                                  frame |-> sess.resp[Len(sess.frames)]]),
                            !.pc = "drain"]
    /\ UNCHANGED <<now, chVars, srvVars, cliVars, mgrVars, pktVars, lifeVars,
                   boVars, faultVars, wireVars, pbVars, sqVars, rlVars>>

\* await client.writer.drain() returns or raises
SessDrain(outcome) ==
    /\ sess.pc = "drain"
    /\ sess' = IF outcome = "raise" THEN SessionError(sess)
               ELSE [sess EXCEPT !.pc = "read"]
    /\ UNCHANGED <<now, chVars, srvVars, cliVars, mgrVars, pktVars, lifeVars,
                   boVars, faultVars, wireVars, pbVars, sqVars, rlVars>>

SessDrainAny == \E outcome \in {"ok", "raise"} : SessDrain(outcome)

\* wait_for times out: the heartbeat is written, and drain() returns or raises
SessTimeout(outcome) ==
    /\ sess.pc = "read"
    /\ now < MaxTimeouts * ReadTimeout
    /\ now' = now + ReadTimeout
    /\ sess' = [sess EXCEPT !.writes = Append(@, [cause |-> 0,
                                                  frame |-> Heartbeat(now')]),
                            !.errs = IF outcome = "raise" THEN @ + 1 ELSE @]
    /\ UNCHANGED <<chVars, srvVars, cliVars, mgrVars, pktVars, lifeVars,
                   boVars, faultVars, wireVars, pbVars, sqVars, rlVars>>

SessTimeoutAny == \E outcome \in {"ok", "raise"} : SessTimeout(outcome)

\* readline returns b"", or stop() cancels the task at one of its awaits
SessEnd ==
    /\ sess.pc \in {"read", "drain"}
    /\ sess' = [sess EXCEPT !.pc = "done"]
    /\ UNCHANGED <<now, chVars, srvVars, cliVars, mgrVars, pktVars, lifeVars,
                   boVars, faultVars, wireVars, pbVars, sqVars, rlVars>>

SessInit == sess = NewSession

\* ------------------------------------ _handle_responses, statement by statement
\* rl is a TCPClient seen through its response loop: rl.conn numbers the
\* connections it has opened, rl.st is the state of the current one ("open",
\* "half": the server has closed its end, "closed": close() has closed the
\* writer), rl.pc the statement the loop is at ("read": awaiting readline,
\* "ack": awaiting _send_raw, "handler": awaiting packet_handler, "done"),
\* rl.frames what the loop did with the last line it has taken off the
\* stream (a sequence of one), rl.n how many lines it has taken, rl.seen
\* what kinds of line came before the last,
\* rl.eof the connections on which it has read end-of-file, rl.lost those for
\* which it called connection_lost() on reading it, rl.again whether it read
\* from a connection after end-of-file, rl.early whether _connect_internal
\* returned without opening a connection, rl.c2s the lines written and not
\* yet read by the server (each with the class of the line it answers, or
\* "send"), rl.served what the server's _process_packet
\* returned for the last one it has read.
NoClient ==
    [made |-> FALSE, reliable |-> FALSE, conn |-> 0, st |-> "none",
     shutdown |-> FALSE, pc |-> "none", frames |-> <<>>, n |-> 0,
     seen |-> {}, eof |-> {},
     lost |-> {}, again |-> FALSE, early |-> FALSE, buffer |-> EmptyBuffer,
     sent |-> FALSE, c2s |-> <<>>, served |-> <<>>]

\* a frame with a payload that asks for an acknowledgment
PayloadFrame ==
    ReliableChannel_packet_data(TCPClient_data(Packet, 0), <<9, SeqZero>>,
                                SeqZero, 0)

ResponseKinds ==
    {"heartbeat", "ack", "ack unknown", "echo", "payload", "payload long",
     "payload with _ack", "payload empty id", "garbage", "binary"}

\* the lines a server may write
ResponseLine(kind) ==
    CASE kind = "heartbeat" -> Heartbeat(ReadTimeout)
      [] kind = "ack" -> JsonDumps(AckFrame(<<0, SeqZero>>))
      [] kind = "ack unknown" -> JsonDumps(AckFrame(<<0, <<0, 1>>>>))
      [] kind = "echo" -> JsonDumps(TCPClient_data(Packet, 0))
      [] kind = "payload" -> JsonDumps(PayloadFrame)
      [] kind = "payload long" -> [JsonDumps(PayloadFrame) EXCEPT !.long = TRUE]
      [] kind = "payload with _ack" ->
             JsonDumps(AckFrame(<<0, SeqZero>>) @@ PayloadFrame)
      [] kind = "payload empty id" ->
             JsonDumps([PayloadFrame EXCEPT !["_meta"] = [@ EXCEPT !.id = <<>>]])
      [] kind = "garbage" -> Garbage
      [] kind = "binary" -> Binary

\* a heartbeat, another JSON frame, or what else the line is
LineClass(line) ==
    IF line.text = "json" /\ "heartbeat" \in DOMAIN line.obj THEN "heartbeat"
    ELSE line.text

\* the while test of _handle_responses, where continue leads
ResponseLoopTop(r) == IF r.shutdown \/ r.st = "closed" THEN "done" ELSE "read"

\* mutant: an _ack frame is not taken for an acknowledgment
HandleResponses_is_ack_Never(reliable, data) == FALSE

\* if self.reliable_channel and "_ack" in data
HandleResponses_is_ack(reliable, data) == reliable /\ "_ack" \in DOMAIN data

\* mutant: a packet is built from whatever the frame holds
HandleResponses_has_packet_Always(data) == TRUE

\* UDPPacket(payload=bytes.fromhex(data['payload']), ...): KeyError unless
\* the frame has every field
HandleResponses_has_packet(data) == PacketKeys \subseteq DOMAIN data

\* mutant: the loop ends on a line that is not JSON
HandleResponses_on_decode_error_Break == "break"

\* except json.JSONDecodeError: continue
HandleResponses_on_decode_error == "continue"

\* mutant: the loop goes on after end-of-file
HandleResponses_at_eof_Continue == "continue"

\* if not line: connection_lost(); break
HandleResponses_at_eof == "break"

\* what the loop has done with a line so far
Untouched(line, r) ==
    [line |-> line, conn |-> r.conn, acks |-> <<>>, failed |-> FALSE,
     handled |-> FALSE, lost |-> FALSE, broke |-> FALSE,
     before |-> r.buffer, after |-> r.buffer]

\* from the UDPPacket constructor to the await of packet_handler, or to the
\* continue of the except block
BuildPacket(r, data) ==
    IF HandleResponses_has_packet(data)
    THEN [r EXCEPT !.frames[Len(r.frames)].handled = TRUE, !.pc = "handler"]
    ELSE [r EXCEPT !.pc = ResponseLoopTop(r)]

\* TCPClient(enable_reliable_delivery=reliable)
RlCreate(reliable) ==
    /\ ~rl.made
    /\ rl' = [rl EXCEPT !.made = TRUE, !.reliable = reliable]
    /\ UNCHANGED <<now, chVars, srvVars, cliVars, mgrVars, pktVars, lifeVars,
                   boVars, faultVars, wireVars, pbVars, sqVars, sessVars>>

RlCreateAny == \E reliable \in BOOLEAN : RlCreate(reliable)

\* _connect_internal, when no response loop of an earlier connection runs
RlConnectInternal ==
    /\ rl.made
    /\ rl.pc \in {"none", "done"}
    /\ IF rl.st \in {"open", "half"}
       THEN rl' = [rl EXCEPT !.early = TRUE]
       ELSE /\ rl.conn < MaxLinks
            /\ rl' = [rl EXCEPT !.conn = @ + 1, !.st = "open",
                                !.shutdown = FALSE, !.pc = "read",
                                !.c2s = <<>>]
    /\ UNCHANGED <<now, chVars, srvVars, cliVars, mgrVars, pktVars, lifeVars,
                   boVars, faultVars, wireVars, pbVars, sqVars, sessVars>>

\* send_packet through the reliable channel, once
RlSend(oldest_id) ==
    /\ rl.reliable
    /\ ~rl.sent
    /\ rl.st = "open"
    /\ LET packet_id == <<0, SeqZero>>
           packet_data == ReliableChannel_packet_data(TCPClient_data(Packet, 0),
                                                      packet_id, SeqZero, 0)
       IN rl' = [rl EXCEPT !.sent = TRUE,
                           !.buffer = PacketBuffer_add(@, packet_id, packet_data,
                                                       0, oldest_id),
                           !.c2s = Append(@, [line |-> JsonDumps(packet_data),
                                              cause |-> "send"])]
    /\ UNCHANGED <<now, chVars, srvVars, cliVars, mgrVars, pktVars, lifeVars,
                   boVars, faultVars, wireVars, pbVars, sqVars, sessVars>>

RlSendAny ==
    \E oldest_id \in (IF IsFull(rl.buffer) THEN IterFirst(rl.buffer.packet_ids)
                      ELSE {NoId}) : RlSend(oldest_id)

\* the server closes the connection
RlServerClose ==
    /\ rl.st = "open"
    /\ rl' = [rl EXCEPT !.st = "half", !.c2s = <<>>]
    /\ UNCHANGED <<now, chVars, srvVars, cliVars, mgrVars, pktVars, lifeVars,
                   boVars, faultVars, wireVars, pbVars, sqVars, sessVars>>

\* close()
RlClose ==
    /\ rl.st \in {"open", "half"}
    /\ rl' = [rl EXCEPT !.shutdown = TRUE, !.st = "closed", !.c2s = <<>>,
                        !.buffer = IF rl.reliable THEN PacketBuffer_clear(@)
                                   ELSE @]
    /\ UNCHANGED <<now, chVars, srvVars, cliVars, mgrVars, pktVars, lifeVars,
                   boVars, faultVars, wireVars, pbVars, sqVars, sessVars>>

\* readline returns a line or raises; the iteration up to its next await or
\* to its end
RlReadline(line) ==
    LET data == JsonLoads(line).value
        r0 == [rl EXCEPT !.frames = <<Untouched(line, rl)>>, !.n = @ + 1,
                         !.seen = @ \cup {LineClass(rl.frames[i].line) :
                                             i \in 1..Len(rl.frames)}]
        n == Len(r0.frames)
        meta == data["_meta"]
    IN /\ rl.pc = "read"
       /\ rl.st \in {"open", "half"}
       /\ rl.conn \notin rl.eof
       /\ rl.n < MaxReplies
       /\ rl' =
            IF line.long \/ line.text = "binary"
            THEN [r0 EXCEPT !.pc = ResponseLoopTop(r0)]
            ELSE IF line.text # "json"
            THEN IF HandleResponses_on_decode_error = "continue"
                 THEN [r0 EXCEPT !.pc = ResponseLoopTop(r0)]
                 ELSE [r0 EXCEPT !.pc = "done", !.frames[n].broke = TRUE]
            ELSE IF HandleResponses_is_ack(rl.reliable, data)
            THEN LET b == PacketBuffer_acknowledge(rl.buffer, data["_ack"])
                 IN [r0 EXCEPT !.buffer = b, !.frames[n].after = b,
                               !.pc = ResponseLoopTop(r0)]
            ELSE IF "_meta" \in DOMAIN data
            THEN IF meta.requires_ack /\ HasId(meta)
                 THEN [r0 EXCEPT !.frames[n].acks =
                                     <<JsonDumps(AckFrame(meta.id))>>,
                                 !.pc = "ack"]
                 ELSE BuildPacket(r0, Without(data, "_meta"))
            ELSE BuildPacket(r0, data)
       /\ UNCHANGED <<now, chVars, srvVars, cliVars, mgrVars, pktVars, lifeVars,
                      boVars, faultVars, wireVars, pbVars, sqVars, sessVars>>

RlReadlineAny == \E kind \in ResponseKinds : RlReadline(ResponseLine(kind))

\* what _send_raw can come to: it raises ConnectionError unless is_connected,
\* and after the server's close the write is lost or resets the connection
SendRawOutcomes(r) ==
    CASE r.st = "open" -> {"sent"}
      [] r.st = "half" -> {"lost", "reset"}
      [] OTHER -> {"refused"}

\* _send_raw(ack_data) returns or raises; on to the next await or to the end
\* of the iteration
RlSendRawDone(outcome) ==
    LET n == Len(rl.frames)
        e == rl.frames[n]
        data == Without(JsonLoads(e.line).value, "_meta")
        r1 == [rl EXCEPT !.frames[n].failed = outcome \in {"reset", "refused"},
                         !.c2s = IF outcome = "sent"
                                 THEN Append(@, [line |-> e.acks[1],
                                                 cause |-> LineClass(e.line)])
                                 ELSE @]
    IN /\ rl.pc = "ack"
       /\ outcome \in SendRawOutcomes(rl)
       /\ rl' = BuildPacket(r1, data)
       /\ UNCHANGED <<now, chVars, srvVars, cliVars, mgrVars, pktVars, lifeVars,
                      boVars, faultVars, wireVars, pbVars, sqVars, sessVars>>

RlSendRawDoneAny ==
    \E outcome \in {"sent", "lost", "reset", "refused"} : RlSendRawDone(outcome)

\* packet_handler returns, raises, or raises a ConnectionError
RlHandlerDone(outcome) ==
    LET n == Len(rl.frames)
    IN /\ rl.pc = "handler"
       /\ rl' = IF outcome = "connection error"
                THEN [rl EXCEPT !.pc = "done", !.frames[n].lost = TRUE,
                                !.frames[n].broke = TRUE]
                ELSE [rl EXCEPT !.pc = ResponseLoopTop(rl)]
       /\ UNCHANGED <<now, chVars, srvVars, cliVars, mgrVars, pktVars, lifeVars,
                      boVars, faultVars, wireVars, pbVars, sqVars, sessVars>>

RlHandlerDoneAny ==
    \E outcome \in {"ok", "raise", "connection error"} : RlHandlerDone(outcome)

\* readline returns b""
RlEof ==
    /\ rl.pc = "read"
    /\ rl.st \in {"half", "closed"}
    /\ rl' = [rl EXCEPT !.eof = @ \cup {rl.conn},
                        !.lost = @ \cup {rl.conn},
                        !.again = @ \/ rl.conn \in rl.eof,
                        !.pc = IF HandleResponses_at_eof = "break" THEN "done"
                               ELSE "read"]
    /\ rl' # rl
    /\ UNCHANGED <<now, chVars, srvVars, cliVars, mgrVars, pktVars, lifeVars,
                   boVars, faultVars, wireVars, pbVars, sqVars, sessVars>>

\* the server's _client_loop reads a line the client wrote
RlServe ==
    /\ rl.st = "open"
    /\ rl.c2s # <<>>
    /\ rl' = [rl EXCEPT !.c2s = Tail(@),
                        !.served =
                            <<[frame |-> Head(rl.c2s).line,
                               cause |-> Head(rl.c2s).cause,
                               reply |-> TCPServer_process_packet(Head(rl.c2s).line,
                                                                  now)]>>]
    /\ UNCHANGED <<now, chVars, srvVars, cliVars, mgrVars, pktVars, lifeVars,
                   boVars, faultVars, wireVars, pbVars, sqVars, sessVars>>

RlInit == rl = NoClient

MgrInit ==
    /\ mgr = [connected |-> FALSE, connecting |-> FALSE, retry_count |-> 0,
             last_error |-> FALSE, task |-> 0]
    /\ loops = <<>>
    /\ calls = [made |-> 0, attempt |-> 0, wait |-> 0]
    /\ since_reset = FALSE

Init ==
    /\ now = 0
    /\ ChInit
    /\ SrvInit
    /\ CliInit
    /\ MgrInit
    /\ PktInit
    /\ LifeInit
    /\ BoInit
    /\ FaultInit
    /\ WireInit
    /\ PbInit
    /\ SqInit
    /\ SessInit
    /\ RlInit

Next ==
    \/ SendAny
    \/ SendReturnAny
    \/ AcknowledgeAny
    \/ RetransmitWake
    \/ RetransmitStepAny
    \/ RetransmitResumeAny
    \/ Start
    \/ Stop
    \/ Tick

Spec == Init /\ [][Next]_vars

ServerNext ==
    \/ ServerStart
    \/ ConnectAny
    \/ HandleClientAny
    \/ ClientSendAny
    \/ ClientCloseAny
    \/ LoopReadAny
    \/ LoopEofAny
    \/ LoopTimeoutAny
    \/ SessionEndAny
    \/ ServerStop

SpecServer == Init /\ [][ServerNext]_vars

\* The specification of the sessions on which no frame arrives: the server's
\* operations with clients that connect and close but write nothing.
IdleTimeoutAny ==
    /\ now < MaxIdle * ReadTimeout
    /\ \E c \in Conns : LoopTimeout(c)

IdleNext ==
    \/ ServerStart
    \/ ConnectAny
    \/ HandleClientAny
    \/ ClientCloseAny
    \/ LoopEofAny
    \/ IdleTimeoutAny
    \/ SessionEndAny
    \/ ServerStop
    \/ ServerStopAgain

SpecIdle == Init /\ [][IdleNext]_vars

ClientNext ==
    \/ ServerStart
    \/ ServerStop
    \/ CliCreateAny
    \/ CliConnect
    \/ CliSendPacketAny
    \/ ReconnectHead
    \/ ReconnectAttempt
    \/ CliRecvLineAny
    \/ CliRecvEnd
    \/ CliClose
    \/ ServeLink

SpecClient == Init /\ [][ClientNext]_vars

\* The specification of the ConnectionManager on its own
ManagerNext ==
    \/ MgrConnect
    \/ MgrConnectResolveAny
    \/ MgrWaitReturn
    \/ MgrLost
    \/ MgrReset
    \/ LoopStartAny
    \/ LoopWakeAny
    \/ LoopResolveAny
    \/ LoopUnwindAny

SpecManager == Init /\ [][ManagerNext]_vars

\* The ConnectionManager with connect() and connection_lost() as its only
\* callers: no reset(), hence no cancelled task
ReconnectNext ==
    \/ MgrConnect
    \/ MgrConnectResolveAny
    \/ MgrWaitReturn
    \/ MgrLost
    \/ LoopStartAny
    \/ LoopWakeAny
    \/ LoopResolveAny

SpecReconnect == Init /\ [][ReconnectNext]_vars

\* The specification of UDPPacket: a packet is constructed from arguments of
\* every kind, encoded in one of its three forms and decoded again
PacketNext ==
    \/ PktConstructAny
    \/ PktEncodeAny
    \/ PktDecode

SpecPacket == Init /\ [][PacketNext]_vars

\* The specification of a ReliableChannel that is started and stopped by
\* callers that run between each other's awaits
LifecycleNext ==
    \/ ChStart
    \/ ChStopCall
    \/ ChStopReturnAny
    \/ ChLoopEndAny
    \/ ChBuffer

SpecLifecycle == Init /\ [][LifecycleNext]_vars

\* The specification of the backoff delays: a manager made with any of the
\* arguments, its connect() and connection_lost() called at any time
BackoffNext ==
    \/ BoNewAny
    \/ BoConnect
    \/ BoConnectResolveAny
    \/ BoLost
    \/ BoLoopStart
    \/ BoLoopWake
    \/ BoLoopResolveAny

SpecBackoff == Init /\ [][BackoffNext]_vars

\* The specification of the sessions whose clients write lines the server
\* cannot read and whose connections break
FaultNext ==
    \/ ServerStart
    \/ ConnectAny
    \/ HandleClientAny
    \/ FaultSendAny
    \/ FaultLoopReadAny
    \/ FaultLoopTimeoutAny
    \/ ConnResetAny
    \/ LoopReadFaultAny
    \/ LoopTimeoutFaultAny
    \/ SessionEndAny

SpecFault == Init /\ [][FaultNext]_vars

\* The specification of the liveness claims: the same operations, with fewer
\* send() calls.  The retransmit loop is an asyncio task: once it can run it is
\* scheduled, and the send_func it awaits is taken to return or raise eventually.
LiveSendAny == n_sends < MaxLiveSends /\ SendAny

LiveNext ==
    \/ LiveSendAny
    \/ SendReturnAny
    \/ AcknowledgeAny
    \/ RetransmitWake
    \/ RetransmitStepAny
    \/ RetransmitResumeAny
    \/ Start
    \/ Stop
    \/ Tick

FairSpec ==
    /\ Init
    /\ [][LiveNext]_vars
    /\ WF_vars(RetransmitWake)
    /\ WF_vars(RetransmitStepAny)
    /\ WF_vars(RetransmitResumeAny)

\* The specification of the channel of a client whose connection is lost and
\* made again: time passes, and the retransmit task runs when it can.
ResendNext ==
    \/ WireUp
    \/ WireDown
    \/ WireSendDown
    \/ WireSendUp
    \/ WireAcknowledge
    \/ RetransmitWake
    \/ WireRetransmitStep
    \/ RetransmitResumeAny
    \/ Tick

SpecResend ==
    /\ Init
    /\ [][ResendNext]_vars
    /\ WF_vars(RetransmitWake)
    /\ WF_vars(WireRetransmitStep)
    /\ WF_vars(RetransmitResumeAny)
    /\ WF_vars(Tick)

\* The specification of one PacketBuffer: add, acknowledge and
\* get_unacknowledged called in any order with any id, time passing between
BufferNext ==
    \/ PbAddAny
    \/ PbAcknowledgeAny
    \/ PbGetUnacknowledged
    \/ Tick

SpecBuffer == Init /\ [][BufferNext]_vars

\* The specification of the sequence numbers: the send() calls of one
\* channel, a few of them watched, at any time
SeqNumNext ==
    \/ SqSend
    \/ SqSendManyAny
    \/ Tick

SpecSeq == Init /\ [][SeqNumNext]_vars

\* The specification of one session: lines of any kind arrive, the read
\* times out, writes fail, the client closes or the server stops
SessionNext ==
    \/ SessReadlineAny
    \/ SessProcess
    \/ SessWrite
    \/ SessDrainAny
    \/ SessTimeoutAny
    \/ SessEnd

SpecSession == Init /\ [][SessionNext]_vars

\* The specification of the response loop: a client of either kind, lines of
\* any kind from the server, writes that fail, the server closing, close()
\* and a new connection
ResponsesNext ==
    \/ RlCreateAny
    \/ RlConnectInternal
    \/ RlSendAny
    \/ RlServerClose
    \/ RlClose
    \/ RlReadlineAny
    \/ RlSendRawDoneAny
    \/ RlHandlerDoneAny
    \/ RlEof
    \/ RlServe

SpecResponses == Init /\ [][ResponsesNext]_vars

\* ------------------------------------------------------------ claims C1-C6
InBuffer(id) == id \in buffer.packet_ids \/ id \in DictKeys(buffer.packets)

WatchedDue ==
    /\ watched \in DictKeys(buffer.packets)
    /\ IsDue(DictGet(buffer.packets, watched), now)

\* C1: whenever add() evicts from a full buffer, the evicted entry is the one
\* inserted earliest: no entry inserted before it is still present.
C1_EvictsOldest == evict_fifo

\* C2: the buffer never holds more than max_size entries, and after
\* max_size + 1 sends with no acknowledgment it holds exactly max_size.
C2_BufferBounded ==
    /\ Len(buffer.packets) <= max_size
    /\ Cardinality(buffer.packet_ids) <= max_size
    /\ (quiet /\ n_sends >= max_size + 1) =>
          /\ Len(buffer.packets) = max_size
          /\ Cardinality(buffer.packet_ids) = max_size

C2_Witness ==
    /\ quiet
    /\ n_sends = max_size + 1
    /\ Len(buffer.packets) = max_size
    /\ retransmit.pc = "sleep"

\* C3: a packet whose acknowledgment is processed no later than ack_timeout
\* after its send has had send_func invoked exactly once and is not buffered.
AckedInTime ==
    /\ watched # NoId
    /\ ack_at # -1
    /\ ack_at - watched[1] <= timeout_seconds

C3_AckedInTimeSentOnce ==
    AckedInTime => (tx.n = 1 /\ ~InBuffer(watched))

C3_Witness ==
    /\ AckedInTime
    /\ tx.n = 1
    /\ Started
    /\ now - watched[1] > timeout_seconds + 1
    /\ retransmit.pc = "sleep"

\* C4: a packet is passed to send_func at most once by send() and at most
\* max_retries times by the retransmit loop.
C4_RetransmitsBounded == tx.n <= 1 + max_retries

C6_SendBuffersFirst ==
    /\ [](watched # NoId => tx.buffered)
    /\ [](send_result.func_raised =>
             (send_result.returned /\ send_result.value = watched))
    /\ [][(send_result'.func_raised /\ ~send_result.func_raised) =>
             (InBuffer(watched)' \/ (watched \in pending_sends /\ ~InBuffer(watched)))]_vars

C6_Witness ==
    /\ send_result.func_raised
    /\ send_result.returned
    /\ InBuffer(watched)
    /\ Started

\* ----------------------------------------------------------- claims C7-C10
Sessions == {c \in Conns : conn[c].st = "session"}

\* C7: at every moment the server holds at most max_clients sessions; a
\* connection handled while max_clients sessions are held is closed in that
\* step, gets no session, and nothing is ever read from or written to it.
C7_SessionsBounded ==
    /\ [](Cardinality(clients) <= max_clients /\ Cardinality(Sessions) <= max_clients)
    /\ [](\A c \in Conns : conn[c].st = "rejected" => c \notin clients /\ ~conn[c].io)
    /\ [][\A c \in Conns :
            (conn[c].st = "pending" /\ conn'[c].st # "pending"
                /\ Cardinality(clients) >= max_clients)
            => conn'[c].st = "rejected" /\ clients' = clients]_vars

\* a connection that had written a line was turned away while max_clients
\* sessions were held
C7_Witness ==
    \E c \in Conns :
        /\ conn[c].st = "rejected"
        /\ conn[c].unread > 0
        /\ Cardinality(clients) = max_clients
        /\ Cardinality(Sessions) = max_clients

\* C8: once the client has seen its connection to the server end, its
\* ConnectionManager reports connected only after a new TCP connection has
\* been opened (a backoff cycle that opens none leaves it disconnected).
C8_ConnectedOnNewConnection == cm.connected => ~link.lost

\* C9: the frame the server writes in reply to the frame of send_packet(P)
\* holds P's payload and addressing fields.
C9_ServerEchoesPacket ==
    reply # None =>
        /\ reply.text = "json"
        /\ \A k \in PacketKeys :
              /\ k \in DOMAIN reply.obj
              /\ reply.obj[k] = TCPClient_data(Packet, now)[k]

\* C10: every JSON object frame without _ack and _meta that the server has
\* read was answered on its connection by a frame with the same keys and
\* values, and every frame written on a connection stems from its own session.
C10_EchoesVerbatim == echo_exact /\ isolated

\* ---------------------------------------------------------- claims C11-C20
\* C11: on every session the server has written one heartbeat for each read
\* timeout that has elapsed on it, each heartbeat carries _meta with
\* requires_ack true, and no two heartbeats of a session have the same id.
C11_OneHeartbeatPerTimeout ==
    \A c \in Conns :
        LET hbs == conn[c].hbs
        IN /\ Len(hbs) = conn[c].timeouts
           /\ \A i \in 1..Len(hbs) :
                 /\ "heartbeat" \in DOMAIN hbs[i].obj
                 /\ hbs[i].obj["_meta"].requires_ack = TRUE
           /\ \A i, j \in 1..Len(hbs) :
                 i # j => hbs[i].obj["_meta"].id # hbs[j].obj["_meta"].id

\* a session that no line was read on has been idle for two read timeouts
C11_Witness ==
    \E c \in Conns :
        /\ conn[c].st = "session"
        /\ conn[c].unread = 0
        /\ conn[c].errs = 0
        /\ conn[c].timeouts = 2
        /\ Len(conn[c].hbs) = 2

\* C12: every line the server has read that was not valid JSON was answered
\* with a frame holding an error field and _meta with requires_ack false, and
\* left the session reading on.
C12_InvalidLineGetsErrorFrame == error_replied

\* C13: connect() calls connect_func only when the manager is not connected
\* and no connect_func call is in flight; on a connected manager it returns
\* at once; a call that found an attempt in flight returns only once no
\* attempt is in flight.
C13_ConnectOnlyWhenIdle ==
    [][/\ calls'.attempt > calls.attempt =>
             ~mgr.connected /\ AttemptsInFlight = 0
       /\ calls'.made > calls.made /\ mgr.connected =>
             calls'.attempt = calls.attempt /\ calls'.wait = calls.wait
       /\ calls'.wait < calls.wait => AttemptsInFlight = 0]_vars

\* C14: at most one task is executing _reconnect_loop, and it is the one
\* _reconnect_task refers to.
C14_OneReconnectLoop ==
    /\ Cardinality(RunningLoops) <= 1
    /\ RunningLoops \subseteq {mgr.task}

\* reset() cancelled the first loop inside its attempt, and a later failure
\* started the second loop while the first had not finished unwinding
C14_Witness ==
    /\ Len(loops) = 2
    /\ loops[1].pc = "unwind"
    /\ LoopRunning(loops[2])

\* C15: connection_lost() on a connected manager leaves it disconnected with
\* a reconnection loop running, and a loop started by connection_lost() ends
\* only after it has made a connect attempt or with the manager connected.
C15_LostStartsAttempt ==
    [][/\ (mgr.connected /\ ~mgr'.connected /\ calls' = calls /\ ~since_reset') =>
             RunningLoops' # {}
       /\ \A i \in DOMAIN loops :
             (loops[i].by = "lost" /\ loops[i].pc # "done" /\ loops'[i].pc = "done") =>
                 loops'[i].attempts >= 1 \/ mgr'.connected]_vars

\* C16: no reconnection loop makes more than max_retries connect attempts.
C16_LoopAttemptsBounded ==
    \A i \in DOMAIN loops : loops[i].attempts <= max_retries

\* C17: once close() has been called on the client, no reconnection loop, no
\* response task and no retransmit task of it is alive, and it holds no
\* connection.
C17_CloseEndsTasks ==
    cli.closed =>
        /\ cm.task \notin {"head", "sleep"}
        /\ link.resp # "run"
        /\ retransmit.pc \notin {"sleep", "send"}
        /\ ~TCPClient_is_connected(link)

\* C18: every write of send_packet that failed with a transport error was
\* followed, within send_packet, by connection_lost(): the manager was left
\* disconnected.
C18_WriteFailureReported == cli.loss_reported

\* C19: reset() leaves the manager disconnected, not connecting, with
\* retry_count 0, no last_error and no loop running; while reset() is the last
\* call made on the manager no connect attempt begins.
C19_ResetQuiesces ==
    [][/\ (~since_reset /\ since_reset') =>
             /\ ~mgr'.connected /\ ~mgr'.connecting
             /\ mgr'.retry_count = 0 /\ ~mgr'.last_error
             /\ RunningLoops' = {}
       /\ (since_reset /\ since_reset') =>
             /\ calls'.attempt <= calls.attempt
             /\ \A i \in DOMAIN loops :
                   loops'[i].pc = "attempt" => loops[i].pc = "attempt"]_vars

\* C20: a stop() of a running server leaves it not running (the listener
\* closed) with an empty session table, every session it had closed and its
\* task ended; a stop() of a server that is not running changes nothing.
C20_StopEndsSessionsOnce ==
    /\ [](stops.idle)
    /\ [][server.running /\ ~server'.running =>
            /\ clients' = {}
            /\ \A c \in Conns :
                  /\ conn'[c].st # "session"
                  /\ conn[c].st = "session" =>
                        conn'[c].st = "closed" /\ conn'[c].pc = "done"]_vars

\* a server that had a session was stopped and stop() was called once more,
\* and stop() was called on a server never started
C20_Witness ==
    /\ stops.calls = {"second", "unstarted"}
    /\ ~server.running
    /\ \E c \in Conns : conn[c].st = "closed" /\ conn[c].timeouts > 0

\* ---------------------------------------------------------- claims C21-C30
\* C25: whenever the client's ConnectionManager is connected, the client holds
\* a connection and the response loop started on it is still reading from it
\* (a connection that has broken counts until that loop has seen it end);
\* every step that turns the manager connected opens a new connection with
\* its response loop.
C25_ConnectedHasReader ==
    /\ [](cm.connected => link.st # "none" /\ link.resp = "run")
    /\ [][(~cm.connected /\ cm'.connected) =>
             (link' # link /\ link'.st = "open" /\ link'.resp = "run")]_vars

\* C26: whenever the manager is connected its retry_count is 0 and its
\* last_error is empty.
C26_ConnectedClearsRetries ==
    mgr.connected => (mgr.retry_count = 0 /\ ~mgr.last_error)

\* C27: at most one call of connect_func is in flight, and _connecting is
\* true exactly while one is.
C27_OneAttemptInFlight ==
    /\ AttemptsInFlight <= 1
    /\ mgr.connecting <=> AttemptsInFlight >= 1

\* C29: once the acknowledgment of a packet has been processed, no step
\* passes that packet to send_func again.
C29_NoResendAfterAck ==
    [][ack_at # -1 => tx'.n = tx.n]_vars

PacketFields == {"payload", "source_addr", "source_port", "dest_addr", "dest_port"}

\* C23: decoding what to_dict, to_json or to_bytes made of a packet raises
\* nothing and gives a packet with the same payload, addresses and ports.
C23_RoundTrip ==
    pkt.stage = "decoded" =>
        /\ pkt.back.raised = ""
        /\ \A f \in PacketFields : PyEq(pkt.back.packet[f], pkt.packet[f])

\* a packet with a payload of bytes 0 and 255 and no destination port went
\* through to_bytes and from_bytes
C23_Witness ==
    /\ pkt.stage = "decoded"
    /\ pkt.form = "bytes"
    /\ pkt.packet.payload.value = <<0, 255>>
    /\ pkt.packet.dest_port.type = "NoneType"
    /\ pkt.packet.dest_addr.type = "str"
    /\ pkt.back.raised = ""

\* C24: a construction with a payload that is not bytes, a port outside
\* 0..65535 or an address inet_aton rejects raises ValueError; a packet that
\* is constructed has size len(payload) and its ports within 0..65535.
C24_InvalidRaisesValueError ==
    pkt.stage # "none" =>
        LET a == pkt.args
            invalid == \/ a[1].type # "bytes"
                       \/ ~PortInRange(a[3])
                       \/ a[5].type # "NoneType" /\ ~PortInRange(a[5])
                       \/ ~InetAtonOk(a[2])
                       \/ a[4].type # "NoneType" /\ ~InetAtonOk(a[4])
        IN /\ invalid => (pkt.stage = "failed" /\ pkt.raised = "ValueError")
           /\ pkt.stage # "failed" =>
                 /\ pkt.packet.size.value[1] = Len(pkt.packet.payload.value)
                 /\ PortInRange(pkt.packet.source_port)
                 /\ pkt.packet.dest_port.type # "NoneType" =>
                       PortInRange(pkt.packet.dest_port)

\* C21: at most one retransmit loop is running at any time, and whenever
\* stop() has returned it left no loop running and an empty buffer.
C21_OneLoopNoneAfterStop ==
    /\ RetransmitLoopsRunning <= 1
    /\ chan.returned.n > 0 => (chan.returned.loops = 0 /\ chan.returned.packets = 0)

\* C22: a delay computed by the reconnection loop is at most
\* max_backoff * (1 + jitter), and the un-jittered delays of the consecutive
\* retries of one loop do not decrease.
C22_BackoffBoundedMonotone ==
    /\ bo.delay # -1 => 10 * bo.delay <= bo.max_backoff * (10 + bo.jitter)
    /\ Len(bo.plain) = 2 => bo.plain[1] <= bo.plain[2]

\* C30: a session on which max_consecutive_errors consecutive errors have
\* been counted has left its loop, and nothing is left of it but the removal
\* from the table and the closing of the socket.
C30_FiveErrorsDisconnect ==
    \A c \in Conns :
        (conn[c].st = "session" /\ conn[c].errs >= max_consecutive_errors) =>
            conn[c].pc = "done"

\* the watched packet is buffered and its acknowledgment can fall overdue
\* within the time modelled
WatchedCanFallDue ==
    /\ watched \in DictKeys(buffer.packets)
    /\ DictGet(buffer.packets, watched).timestamp + timeout_seconds < MaxTime

C37_ReturnsDueOnce ==
    pb.op = "get_unacknowledged" =>
        LET b == pb.before.packets
            a == pb.buf.packets
            late(i) == pb.at - b[i].timestamp > timeout_seconds
            ids == {b[i].id : i \in {j \in 1..Len(b) : late(j)}}
        IN /\ Len(a) = Len(b)
           /\ pb.buf.packet_ids = pb.before.packet_ids
           /\ \A i \in 1..Len(b) :
                 IF late(i)
                 THEN a[i] = [id |-> b[i].id, data |-> b[i].data,
                              timestamp |-> pb.at, retries |-> b[i].retries + 1]
                 ELSE a[i] = b[i]
           /\ {pb.result[i].id : i \in 1..Len(pb.result)} = ids
           /\ Len(pb.result) = Cardinality(ids)
           /\ \A i \in 1..Len(pb.result) :
                 /\ pb.result[i].data = DictGet(b, pb.result[i].id).data
                 /\ pb.was[pb.result[i].id] # NoTime
                      => pb.at - pb.was[pb.result[i].id] > timeout_seconds

\* a call that returns an entry an earlier call returned, beside an entry
\* that is not due
C37_Witness ==
    /\ pb.op = "get_unacknowledged"
    /\ \E i \in 1..Len(pb.result) : pb.was[pb.result[i].id] # NoTime
    /\ Len(pb.result) < Len(pb.buf.packets)

\* C38: acknowledge(id) raises nothing; for an id the buffer does not hold it
\* leaves the buffer as it was, for an id it holds it removes that entry and
\* no other.
C38_AcknowledgeAbsentIsNoop ==
    pb.op = "acknowledge" =>
        /\ ~pb.raised
        /\ IF \E i \in 1..Len(pb.before.packets) : pb.before.packets[i].id = pb.arg
           THEN /\ pb.buf.packets =
                      SelectSeq(pb.before.packets, LAMBDA e : e.id # pb.arg)
                /\ Len(pb.buf.packets) = Len(pb.before.packets) - 1
                /\ pb.buf.packet_ids = pb.before.packet_ids \ {pb.arg}
           ELSE pb.buf = pb.before

\* an id acknowledged a second time while the buffer holds other entries
C38_Witness ==
    /\ pb.op = "acknowledge"
    /\ pb.again
    /\ pb.arg \notin DictKeys(pb.before.packets)
    /\ pb.before.packets # <<>>

\* C39: the first send() of a channel is given sequence number 0 and each
\* later one the number of the send() before it plus one, 0 after 2^32 - 1;
\* every number given lies in 0 .. 2^32 - 1, and the seq written to _meta is
\* the seq part of the returned id.
C39_SeqCountsModulo ==
    sq.seq # NoSeq =>
        /\ sq.seq[1] \in 0..(Half - 1)
        /\ sq.seq[2] \in 0..(Half - 1)
        /\ sq.was_first => sq.seq = <<0, 0>>
        /\ sq.prev # NoSeq =>
              sq.seq = IF sq.prev[2] < Half - 1
                       THEN <<sq.prev[1], sq.prev[2] + 1>>
                       ELSE IF sq.prev[1] < Half - 1
                            THEN <<sq.prev[1] + 1, 0>>
                            ELSE <<0, 0>>
        /\ sq.meta_seq = sq.id[2]
        /\ sq.meta_seq = sq.seq
        /\ sq.meta_id = sq.id

\* the send() after the one that was given 2^32 - 1
C39_Witness ==
    /\ sq.prev = <<Half - 1, Half - 1>>
    /\ sq.seq = <<0, 0>>
    /\ sq.meta_seq = <<0, 0>>

\* a frame whose _meta has requires_ack true and an id
WantsAck(line) ==
    /\ line.text = "json"
    /\ "_meta" \in DOMAIN line.obj
    /\ "id" \in DOMAIN line.obj["_meta"]
    /\ line.obj["_meta"].requires_ack

\* C31: for every frame of a session whose _meta has requires_ack true and an
\* id, once the loop is back at readline or has read a later frame, the one
\* thing written for that frame is {_ack: id}.
C31_AckBeforeNextRead ==
    \A i \in 1..Len(sess.frames) :
        (WantsAck(sess.frames[i]) /\ (i < Len(sess.frames) \/ sess.pc = "read"))
        => /\ \E j \in 1..Len(sess.writes) : sess.writes[j].cause = i
           /\ \A j \in 1..Len(sess.writes) :
                 sess.writes[j].cause = i
                 => sess.writes[j].frame =
                        JsonDumps(AckFrame(sess.frames[i].obj["_meta"].id))

\* C40: the replies of a session are written in the order in which the
\* frames they answer were read, at most one for a frame: a frame is read
\* only when what the frame before it called for has been written, and
\* nothing is written for a frame that has not been read.
C40_RepliesInReadOrder ==
    LET w == sess.writes
        replies == {j \in 1..Len(w) : w[j].cause > 0}
    IN /\ \A j \in replies :
             /\ w[j].cause <= Len(sess.frames)
             /\ w[j].frame # None
             /\ w[j].frame = sess.resp[w[j].cause]
       /\ \A j, k \in replies : j < k => w[j].cause < w[k].cause
       /\ \A i \in 1..(Len(sess.frames) - 1) :
             sess.resp[i] # None => \E j \in replies : w[j].cause = i

\* three frames read, the first and the third answered, a heartbeat written
\* in between
C40_Witness ==
    /\ Len(sess.frames) = 3
    /\ Len(sess.writes) = 3
    /\ sess.writes[1].cause = 1
    /\ sess.writes[2].cause = 0
    /\ sess.writes[3].cause = 3

IsHeartbeat(line) == line.text = "json" /\ "heartbeat" \in DOMAIN line.obj

HasAck(line) == line.text = "json" /\ "_ack" \in DOMAIN line.obj

\* C32: for a heartbeat frame the client passes {_ack: <heartbeat id>} to
\* _send_raw and nothing else, does not invoke the packet handler, does not
\* call connection_lost() and does not leave its loop; the server's
\* _process_packet returns None for every _ack frame it reads.
C32_HeartbeatAcked ==
    /\ \A i \in 1..Len(rl.frames) :
          LET e == rl.frames[i]
          IN IsHeartbeat(e.line)
             => /\ e.acks = <<JsonDumps(AckFrame(e.line.obj["_meta"].id))>>
                /\ ~e.handled
                /\ ~e.lost
                /\ ~e.broke
    /\ \A j \in 1..Len(rl.served) :
          HasAck(rl.served[j].frame) => rl.served[j].reply = None

\* a heartbeat answered, the answer read by the server, and a later frame
\* handed to the handler
C32_Witness ==
    /\ "heartbeat" \in rl.seen
    /\ rl.frames # <<>>
    /\ rl.frames[1].handled
    /\ \E j \in 1..Len(rl.served) :
          /\ rl.served[j].cause = "heartbeat"
          /\ HasAck(rl.served[j].frame)

\* C33: with reliable delivery, for a frame that holds _ack the loop takes
\* that id out of the buffer and does nothing else: nothing is passed to
\* _send_raw, the handler is not invoked, the loop goes on.
C33_AckOnlyAcknowledges ==
    rl.reliable =>
        \A i \in 1..Len(rl.frames) :
            LET e == rl.frames[i]
                id == e.line.obj["_ack"]
            IN HasAck(e.line)
               => /\ e.after.packets =
                        SelectSeq(e.before.packets, LAMBDA x : x.id # id)
                  /\ e.after.packet_ids = e.before.packet_ids \ {id}
                  /\ e.acks = <<>>
                  /\ ~e.handled
                  /\ ~e.lost
                  /\ ~e.broke

\* an _ack frame that took its id out of the buffer
C33_Witness ==
    /\ rl.reliable
    /\ \E i \in 1..Len(rl.frames) :
          /\ HasAck(rl.frames[i].line)
          /\ rl.frames[i].before.packets # <<>>
          /\ rl.frames[i].after.packets = <<>>

\* C34: for every frame whose _meta has requires_ack true and an id the
\* loop passes {_ack: id} to _send_raw, once, and a failure of that call does
\* not end the loop.
C34_OneAckPerFrame ==
    \A i \in 1..Len(rl.frames) :
        LET e == rl.frames[i]
        IN WantsAck(e.line)
           => /\ e.acks = <<JsonDumps(AckFrame(e.line.obj["_meta"].id))>>
              /\ e.failed => ~e.broke

\* C35: once the loop has read end-of-file on a connection it has called
\* connection_lost(), has ended, and does not read from that connection again.
C35_EofEndsLoop ==
    /\ ~rl.again
    /\ rl.eof \subseteq rl.lost
    /\ rl.conn \in rl.eof => rl.pc = "done"

\* end-of-file read on the first connection, frames read on the second
C35_Witness ==
    /\ 1 \in rl.eof
    /\ rl.conn = 2
    /\ rl.frames # <<>>
    /\ rl.frames[Len(rl.frames)].conn = 2

\* C36: a line that is not valid JSON is skipped: the loop does not end on
\* it, connection_lost() is not called, the handler is not invoked, nothing
\* is written and the buffer is left alone.
C36_InvalidJsonSkipped ==
    \A i \in 1..Len(rl.frames) :
        LET e == rl.frames[i]
        IN (e.line.text # "json" /\ ~e.line.long)
           => /\ ~e.broke
              /\ ~e.lost
              /\ ~e.handled
              /\ e.acks = <<>>
              /\ e.after = e.before
              /\ (i = Len(rl.frames) /\ rl.pc = "done")
                   => (rl.shutdown \/ rl.conn \in rl.eof)

\* a line that is not JSON, and after it a frame handed to the handler
C36_Witness ==
    /\ "garbage" \in rl.seen
    /\ rl.frames # <<>>
    /\ rl.frames[1].handled

====
